---------------------------- MODULE Spec2Model ----------------------------
(***************************************************************************)
(* Verification model of the declarative API-tools extension:              *)
(*   template-engine.ts  interpolateString, interpolateDeep                *)
(*   executor.ts         isPrivateHost, isAllowedHost, validateUrl,        *)
(*                       checkRequiredEnvVars, executeApiTool,             *)
(*                       buildParameterSchema                              *)
(*   yaml-loader.ts      validateDefinition, loadToolDefinitions           *)
(* and of the tenant layer:                                                *)
(*   tenant-context.ts   runWithTenantContext, runWithTenantContextAsync,  *)
(*                       the getters                                       *)
(*   tenant-manager.ts   createTenant and the tenant store                 *)
(*                                                                         *)
(* Text is modelled character by character: a string is a sequence of      *)
(* one-character strings, so that regular-expression scanning, prefix and  *)
(* suffix tests and URL parsing are computed as the code computes them.    *)
(***************************************************************************)
EXTENDS Integers, Sequences, FiniteSets, TLC

(***************************************************************************)
(* Characters and character classes                                        *)
(***************************************************************************)
LowerLetters ==
  << "a", "b", "c", "d", "e", "f", "g", "h", "i", "j", "k", "l", "m",
     "n", "o", "p", "q", "r", "s", "t", "u", "v", "w", "x", "y", "z" >>
UpperLetters ==
  << "A", "B", "C", "D", "E", "F", "G", "H", "I", "J", "K", "L", "M",
     "N", "O", "P", "Q", "R", "S", "T", "U", "V", "W", "X", "Y", "Z" >>
DigitChars == << "0", "1", "2", "3", "4", "5", "6", "7", "8", "9" >>

Range(f) == { f[x] : x \in DOMAIN f }

\* [a-zA-Z_] and [a-zA-Z0-9_] of TEMPLATE_PATTERN
IdStart == Range(LowerLetters) \cup Range(UpperLetters) \cup {"_"}
IdChar == IdStart \cup Range(DigitChars)

IndexIn(c, s) == CHOOSE i \in DOMAIN s : s[i] = c

\* String.prototype.toLowerCase / the URL parser's ASCII lowercasing, per character
LowerChar(c) == IF c \in Range(UpperLetters) THEN LowerLetters[IndexIn(c, UpperLetters)] ELSE c
ToLower(s) == [i \in DOMAIN s |-> LowerChar(s[i])]

(***************************************************************************)
(* String primitives used by the source                                    *)
(***************************************************************************)
\* s.startsWith(p, from) with from a 1-based index
HasPrefixAt(s, i, p) ==
  /\ i >= 1
  /\ i + Len(p) - 1 <= Len(s)
  /\ \A k \in 1..Len(p) : s[i + k - 1] = p[k]

startsWith(s, p) == HasPrefixAt(s, 1, p)
endsWith(s, p) == Len(p) <= Len(s) /\ HasPrefixAt(s, Len(s) - Len(p) + 1, p)

\* s.slice(n): s without its first n characters
slice(s, n) == IF n >= Len(s) THEN <<>> ELSE SubSeq(s, n + 1, Len(s))

\* true when p occurs somewhere in s
Contains(s, p) == \E i \in 1..(Len(s) + 1) : HasPrefixAt(s, i, p)

RECURSIVE join(_, _)
\* Array.prototype.join(sep) on a list of strings
join(list, sep) ==
  IF Len(list) = 0 THEN <<>>
  ELSE IF Len(list) = 1 THEN list[1]
  ELSE list[1] \o sep \o join(Tail(list), sep)

RECURSIVE NatToChars(_)
\* String(n) for a non-negative integer
NatToChars(n) ==
  IF n < 10 THEN << DigitChars[n + 1] >>
  ELSE NatToChars(n \div 10) \o << DigitChars[(n % 10) + 1] >>

(***************************************************************************)
(* Text constants                                                          *)
(***************************************************************************)
s_env == <<"e", "n", "v">>
s_params == <<"p", "a", "r", "a", "m", "s">>
s_response == <<"r", "e", "s", "p", "o", "n", "s", "e">>
s_KEY == <<"K", "E", "Y">>
s_TOK == <<"T", "O", "K">>
s_id == <<"i", "d">>
s_msg == <<"m", "s", "g">>
s_host == <<"h", "o", "s", "t">>
s_path == <<"p", "a", "t", "h">>
s_http == <<"h", "t", "t", "p", ":", "/", "/">>
s_https == <<"h", "t", "t", "p", "s", ":", "/", "/">>
h_a_io == <<"a", ".", "i", "o">>
h_b_a_io == <<"b", ".", "a", ".", "i", "o">>
h_xa_io == <<"x", "a", ".", "i", "o">>
h_evil_io == <<"e", "v", "i", "l", ".", "i", "o">>
h_localhost == <<"l", "o", "c", "a", "l", "h", "o", "s", "t">>
h_LocalHost == <<"L", "o", "c", "a", "l", "H", "o", "s", "t">>
h_127_0_0_1 == <<"1", "2", "7", ".", "0", ".", "0", ".", "1">>
h_10_0_0_1 == <<"1", "0", ".", "0", ".", "0", ".", "1">>
h_172_16_0_1 == <<"1", "7", "2", ".", "1", "6", ".", "0", ".", "1">>
h_172_32_0_1 == <<"1", "7", "2", ".", "3", "2", ".", "0", ".", "1">>
h_192_168_1_1 == <<"1", "9", "2", ".", "1", "6", "8", ".", "1", ".", "1">>
h_169_254_169_254 == <<"1", "6", "9", ".", "2", "5", "4", ".", "1", "6", "9", ".", "2", "5", "4">>
h_169_254_1_1 == <<"1", "6", "9", ".", "2", "5", "4", ".", "1", ".", "1">>
h_ipv6_loopback == <<"[", ":", ":", "1", "]">>
h_x_local == <<"x", ".", "l", "o", "c", "a", "l">>
h_x_internal == <<"x", ".", "i", "n", "t", "e", "r", "n", "a", "l">>
h_decimal_loopback == <<"2", "1", "3", "0", "7", "0", "6", "4", "3", "3">>
h_short_loopback == <<"1", "2", "7", ".", "1">>
h_wild_a_io == <<"*", ".", "a", ".", "i", "o">>
s_Bearer == <<"B", "e", "a", "r", "e", "r", " ">>
s_not_a_url == <<"n", "o", "t", " ", "a", " ", "u", "r", "l">>
s_true == <<"t", "r", "u", "e">>
s_false == <<"f", "a", "l", "s", "e">>
s_null == <<"n", "u", "l", "l">>
s_object_Object == <<"[", "o", "b", "j", "e", "c", "t", " ", "O", "b", "j", "e", "c", "t", "]">>
msg_MissingEnvVar ==
  << "M", "i", "s", "s", "i", "n", "g", " ", "r", "e", "q", "u", "i", "r", "e", "d", " ", "e",
     "n", "v", "i", "r", "o", "n", "m", "e", "n", "t", " ", "v", "a", "r", "i", "a", "b", "l",
     "e", ":", " " >>
msg_MissingEnvVars ==
  << "M", "i", "s", "s", "i", "n", "g", " ", "r", "e", "q", "u", "i", "r", "e", "d", " ", "e",
     "n", "v", "i", "r", "o", "n", "m", "e", "n", "t", " ", "v", "a", "r", "i", "a", "b", "l",
     "e", "s", ":", " " >>
msg_InvalidUrl == <<"I", "n", "v", "a", "l", "i", "d", " ", "U", "R", "L", ":", " ">>
msg_BlockedPrivate ==
  << "B", "l", "o", "c", "k", "e", "d", ":", " ", "r", "e", "q", "u", "e", "s", "t", "s", " ",
     "t", "o", " ", "p", "r", "i", "v", "a", "t", "e", "/", "i", "n", "t", "e", "r", "n", "a",
     "l", " ", "h", "o", "s", "t", "s", " ", "n", "o", "t", " ", "a", "l", "l", "o", "w", "e",
     "d", " ", "(" >>
msg_BlockedHost == <<"B", "l", "o", "c", "k", "e", "d", ":", " ", "h", "o", "s", "t", " ", "'">>
msg_NotInAllowed ==
  << "'", " ", "n", "o", "t", " ", "i", "n", " ", "a", "l", "l", "o", "w", "e", "d", "_", "h",
     "o", "s", "t", "s", " ", "[" >>
s_ContentType == <<"C", "o", "n", "t", "e", "n", "t", "-", "T", "y", "p", "e">>
s_application_json ==
  << "a", "p", "p", "l", "i", "c", "a", "t", "i", "o", "n", "/", "j", "s", "o", "n" >>
s_application_form ==
  << "a", "p", "p", "l", "i", "c", "a", "t", "i", "o", "n", "/", "x", "-", "w", "w", "w", "-",
     "f", "o", "r", "m", "-", "u", "r", "l", "e", "n", "c", "o", "d", "e", "d" >>
s_content_type == <<"c", "o", "n", "t", "e", "n", "t", "-", "t", "y", "p", "e">>
s_text_plain == <<"t", "e", "x", "t", "/", "p", "l", "a", "i", "n">>
s_Authorization == <<"A", "u", "t", "h", "o", "r", "i", "z", "a", "t", "i", "o", "n">>
s_X_Tok == <<"X", "-", "T", "o", "k">>
s_value == <<"v", "a", "l", "u", "e">>
s_message == <<"m", "e", "s", "s", "a", "g", "e">>
s_status == <<"s", "t", "a", "t", "u", "s">>
s_length == <<"l", "e", "n", "g", "t", "h">>
s_text == <<"t", "e", "x", "t">>
s_secret == <<":", "8", "0", "8", "0", "/", "s", "e", "c", "r", "e", "t">>
s_steal == <<"/", "s", "t", "e", "a", "l">>
s_at_evil == <<"@", "e", "v", "i", "l", ".", "i", "o", "/">>
s_got == <<"g", "o", "t", " ">>
s_failed == <<"f", "a", "i", "l", "e", "d", " ">>
s_k1 == <<"k", "1">>
s_t1 == <<"t", "1">>
s_k2 == <<"k", "2">>
s_t2 == <<"t", "2">>
s_ok == <<"o", "k">>
s_foo == <<"f", "o", "o">>
s_bar == <<"b", "a", "r">>
msg_FetchFailed == <<"f", "e", "t", "c", "h", " ", "f", "a", "i", "l", "e", "d">>
msg_Aborted ==
  << "T", "h", "i", "s", " ", "o", "p", "e", "r", "a", "t", "i", "o", "n", " ", "w", "a", "s",
     " ", "a", "b", "o", "r", "t", "e", "d" >>
msg_JsonSyntax ==
  << "U", "n", "e", "x", "p", "e", "c", "t", "e", "d", " ", "e", "n", "d", " ", "o", "f", " ",
     "J", "S", "O", "N", " ", "i", "n", "p", "u", "t" >>

(***************************************************************************)
(* JavaScript values.  A value is a tagged record; objects and arrays are  *)
(* kept with their entry order (Object.entries order).                     *)
(***************************************************************************)
Undefined == [t |-> "undefined"]
Null == [t |-> "null"]
Str(s) == [t |-> "string", s |-> s]
Num(n) == [t |-> "number", n |-> n]
Bool(b) == [t |-> "boolean", b |-> b]
Arr(items) == [t |-> "array", a |-> items]
Obj(entries) == [t |-> "object", o |-> entries]

RECURSIVE ToStringJS(_)
\* String(value)
ToStringJS(v) ==
  CASE v.t = "string" -> v.s
    [] v.t = "number" -> IF v.n < 0 THEN <<"-">> \o NatToChars(0 - v.n) ELSE NatToChars(v.n)
    [] v.t = "boolean" -> IF v.b THEN s_true ELSE s_false
    [] v.t = "null" -> s_null
    [] v.t = "array" ->
         join([i \in DOMAIN v.a |->
                 IF v.a[i].t \in {"null", "undefined"} THEN <<>> ELSE ToStringJS(v.a[i])],
              <<",">>)
    [] v.t = "object" -> s_object_Object
    [] OTHER -> <<"u", "n", "d", "e", "f", "i", "n", "e", "d">>

\* record[key] on a string-keyed record given as a TLA+ function
Lookup(rec, key) == IF key \in DOMAIN rec THEN rec[key] ELSE Undefined

(***************************************************************************)
(* Outcome of a call that may throw: a returned value or a thrown Error    *)
(* carrying its message.                                                   *)
(***************************************************************************)
Return(v) == [ok |-> TRUE, v |-> v]
Throw(message) == [ok |-> FALSE, message |-> message]

\* A local constant: the value is computed once, then Body reads it (const x = ...)
Const(value, Body(_)) == CHOOSE r \in { Body(x) : x \in { value } } : TRUE

\* The statements after a call that may throw: they run on the value the call
\* returned; a throw passes them by
Then(outcome, Rest(_)) == Const(outcome, LAMBDA x : IF x.ok THEN Rest(x.v) ELSE x)

(***************************************************************************)
(* template-engine.ts                                                      *)
(***************************************************************************)
Open == <<"{", "{">>
Close == <<"}", "}">>
Scopes == <<s_env, s_params, s_response>>

RECURSIVE KeyEnd(_, _)
\* [a-zA-Z0-9_]* is greedy: the index just past the last identifier character from j on
KeyEnd(s, j) == IF j <= Len(s) /\ s[j] \in IdChar THEN KeyEnd(s, j + 1) ELSE j

\* One attempt of TEMPLATE_PATTERN at index i of s:
\*   \{\{(env|params|response)\.([a-zA-Z_][a-zA-Z0-9_]*)\}\}
TemplateMatchAt(s, i) ==
  LET cands == { n \in DOMAIN Scopes :
                   HasPrefixAt(s, i, Open \o Scopes[n] \o <<".">>) }
  IN IF cands = {} THEN [ok |-> FALSE]
     ELSE LET n == CHOOSE n \in cands : TRUE
              k0 == i + 2 + Len(Scopes[n]) + 1
              k1 == KeyEnd(s, k0)
          IN IF k0 <= Len(s) /\ s[k0] \in IdStart /\ HasPrefixAt(s, k1, Close)
             THEN [ok |-> TRUE, scope |-> Scopes[n],
                   key |-> SubSeq(s, k0, k1 - 1), next |-> k1 + 2]
             ELSE [ok |-> FALSE]

\* ResolvePlaceholder without the strict-mode throw
ResolvePlaceholder_NeverThrows(scope, key, ctx, strictEnv) ==
  LET rec == IF scope = s_env THEN ctx.env
             ELSE IF scope = s_params THEN ctx.params ELSE ctx.response
      value == Lookup(rec, key)
  IN IF scope = s_response /\ ~ctx.hasResponse THEN Return(<<>>)
     ELSE Return(IF value \in {Undefined, Null} /\ scope = s_env THEN <<>>
                 ELSE IF value = Undefined THEN <<>> ELSE ToStringJS(value))

\* ResolvePlaceholder substituting String(undefined) for an absent key
ResolvePlaceholder_PrintsUndefined(scope, key, ctx, strictEnv) ==
  LET rec == IF scope = s_env THEN ctx.env
             ELSE IF scope = s_params THEN ctx.params ELSE ctx.response
      value == IF scope = s_response /\ ~ctx.hasResponse THEN Undefined ELSE Lookup(rec, key)
  IN IF scope = s_env /\ value = Undefined /\ strictEnv
     THEN Throw(msg_MissingEnvVar \o key)
     ELSE Return(ToStringJS(value))

\* The replacer callback of interpolateString for one match
ResolvePlaceholder(scope, key, ctx, strictEnv) ==
  IF scope = s_env THEN
    LET value == Lookup(ctx.env, key)
    IN IF value = Undefined /\ strictEnv
       THEN Throw(msg_MissingEnvVar \o key)
       ELSE Return(IF value \in {Undefined, Null} THEN <<>> ELSE ToStringJS(value))
  ELSE IF scope = s_params THEN
    LET value == Lookup(ctx.params, key)
    IN IF value = Undefined THEN Return(<<>>) ELSE Return(ToStringJS(value))
  ELSE
    IF ~ctx.hasResponse THEN Return(<<>>)
    ELSE LET value == Lookup(ctx.response, key)
         IN IF value = Undefined THEN Return(<<>>) ELSE Return(ToStringJS(value))

\* Index of the leftmost match of TEMPLATE_PATTERN at or after index i, 0 for none
NextMatch(s, i) ==
  Const({ j \in i..Len(s) : TemplateMatchAt(s, j).ok }, LAMBDA hits :
    IF hits = {} THEN 0 ELSE CHOOSE j \in hits : \A k \in hits : j <= k)

RECURSIVE ReplaceFrom(_, _, _, _)
\* a replace that scans the substituted text again for placeholders
ReplaceFrom_Rescans(s, i, ctx, strictEnv) ==
  Const(NextMatch(s, i), LAMBDA j :
    IF j = 0 THEN Return(SubSeq(s, i, Len(s)))
    ELSE Const(TemplateMatchAt(s, j), LAMBDA m :
         Then(ResolvePlaceholder(m.scope, m.key, ctx, strictEnv), LAMBDA text :
         Then(ReplaceFrom(text \o SubSeq(s, m.next, Len(s)), 1, ctx, strictEnv),
              LAMBDA rest :
         Return(SubSeq(s, i, j - 1) \o rest)))))

\* template.replace(TEMPLATE_PATTERN, callback) from index i on: one left-to-right
\* pass over the template; text between matches is copied, replacement text is
\* appended and never rescanned; a throw in the callback abandons the whole replace
ReplaceFrom(s, i, ctx, strictEnv) ==
  Const(NextMatch(s, i), LAMBDA j :
    IF j = 0 THEN Return(SubSeq(s, i, Len(s)))
    ELSE Const(TemplateMatchAt(s, j), LAMBDA m :
         Then(ResolvePlaceholder(m.scope, m.key, ctx, strictEnv), LAMBDA text :
         Then(ReplaceFrom(s, m.next, ctx, strictEnv), LAMBDA rest :
         Return(SubSeq(s, i, j - 1) \o text \o rest)))))

interpolateString(template, ctx, strictEnv) == ReplaceFrom(template, 1, ctx, strictEnv)

RECURSIVE interpolateDeep(_, _, _)
RECURSIVE DeepItems(_, _, _)
RECURSIVE DeepEntries(_, _, _)
\* value.map(item => interpolateDeep(item, ...)): items in order, first throw wins
DeepItems(items, ctx, strictEnv) ==
  IF Len(items) = 0 THEN Return(<<>>)
  ELSE Then(interpolateDeep(Head(items), ctx, strictEnv), LAMBDA item :
       Then(DeepItems(Tail(items), ctx, strictEnv), LAMBDA rest :
       Return(<<item>> \o rest)))

\* for (const [k, v] of Object.entries(value)) result[k] = interpolateDeep(v, ...)
DeepEntries(entries, ctx, strictEnv) ==
  IF Len(entries) = 0 THEN Return(<<>>)
  ELSE Then(interpolateDeep(Head(entries)[2], ctx, strictEnv), LAMBDA v :
       Then(DeepEntries(Tail(entries), ctx, strictEnv), LAMBDA rest :
       Return(<< <<Head(entries)[1], v>> >> \o rest)))

\* interpolateDeep that interpolates top-level strings and array items only
interpolateDeep_Shallow(value, ctx, strictEnv) ==
  IF value.t = "string" THEN
    Then(interpolateString(value.s, ctx, strictEnv), LAMBDA text : Return(Str(text)))
  ELSE IF value.t = "array" THEN
    Then(DeepItems(value.a, ctx, strictEnv), LAMBDA items : Return(Arr(items)))
  ELSE Return(value)

interpolateDeep(value, ctx, strictEnv) ==
  IF value.t = "string" THEN
    Then(interpolateString(value.s, ctx, strictEnv), LAMBDA text : Return(Str(text)))
  ELSE IF value.t = "array" THEN
    Then(DeepItems(value.a, ctx, strictEnv), LAMBDA items : Return(Arr(items)))
  ELSE IF value.t = "object" THEN
    Then(DeepEntries(value.o, ctx, strictEnv), LAMBDA entries : Return(Obj(entries)))
  ELSE Return(value)

(***************************************************************************)
(* new URL(url).hostname for http and https URLs: the URL Standard's       *)
(* parser restricted to ASCII input without percent-escapes, tabs or       *)
(* newlines.  After the scheme every "/" and "\" is skipped; the authority *)
(* runs to the next "/", "\", "?" or "#"; credentials end at the last "@"; *)
(* a trailing ":port" is split off; the host is lower-cased, and a host    *)
(* whose last label is a number is parsed as an IPv4 address and           *)
(* serialised as a dotted quad.  A bracketed IPv6 literal is kept as       *)
(* written (the inputs hold such literals in their compressed form only).  *)
(***************************************************************************)
HexLetters == << "a", "b", "c", "d", "e", "f" >>
IsDigit(c) == c \in Range(DigitChars)
IsHexDigit(c) == IsDigit(c) \/ c \in Range(HexLetters)
DigitValue(c) == IF IsDigit(c) THEN IndexIn(c, DigitChars) - 1 ELSE 9 + IndexIn(c, HexLetters)

AuthorityEnd == {"/", "\\", "?", "#"}
ForbiddenHostChars ==
  {" ", "#", "/", ":", "<", ">", "?", "@", "[", "\\", "]", "^", "|", "%"}

RECURSIVE SkipWhile(_, _, _)
\* the first index from i on whose character is not in set (Len(s) + 1 if none)
SkipWhile(s, i, set) == IF i <= Len(s) /\ s[i] \in set THEN SkipWhile(s, i + 1, set) ELSE i

RECURSIVE SkipUntil(_, _, _)
\* the first index from i on whose character is in set (Len(s) + 1 if none)
SkipUntil(s, i, set) == IF i <= Len(s) /\ s[i] \notin set THEN SkipUntil(s, i + 1, set) ELSE i

RECURSIVE Split(_, _)
\* s.split(sep) for a one-character separator
Split(s, sep) ==
  LET j == SkipUntil(s, 1, {sep})
  IN IF j > Len(s) THEN << s >>
     ELSE << SubSeq(s, 1, j - 1) >> \o Split(SubSeq(s, j + 1, Len(s)), sep)

LastIndexOf(s, c) ==
  IF \E i \in DOMAIN s : s[i] = c
  THEN CHOOSE i \in DOMAIN s : s[i] = c /\ \A j \in DOMAIN s : s[j] = c => j <= i
  ELSE 0

RECURSIVE DigitsValue(_, _)
\* the number a digit string spells in the radix
DigitsValue(ds, radix) ==
  IF Len(ds) = 0 THEN 0
  ELSE DigitsValue(SubSeq(ds, 1, Len(ds) - 1), radix) * radix + DigitValue(ds[Len(ds)])

\* The IPv4 number parser: 0x prefix hexadecimal, leading 0 octal, else decimal
ParseIPv4Number(part) ==
  LET hex == Len(part) >= 2 /\ part[1] = "0" /\ part[2] = "x"
      oct == ~hex /\ Len(part) >= 2 /\ part[1] = "0"
      digits == IF hex THEN slice(part, 2) ELSE IF oct THEN slice(part, 1) ELSE part
      radix == IF hex THEN 16 ELSE IF oct THEN 8 ELSE 10
  IN IF Len(part) = 0 THEN [ok |-> FALSE]
     ELSE IF \E i \in DOMAIN digits :
               \/ ~IsHexDigit(digits[i])
               \/ DigitValue(digits[i]) >= radix
          THEN [ok |-> FALSE]
          ELSE [ok |-> TRUE, n |-> DigitsValue(digits, radix)]

\* Labels of a host with one trailing empty label dropped
HostParts(host) ==
  Const(Split(host, "."), LAMBDA parts :
    IF Len(parts) > 1 /\ parts[Len(parts)] = <<>>
    THEN SubSeq(parts, 1, Len(parts) - 1) ELSE parts)

\* "ends in a number" of the host parser
EndsInNumber(host) ==
  Const(HostParts(host), LAMBDA parts :
  Const(parts[Len(parts)], LAMBDA last :
    /\ last # <<>>
    /\ \/ \A i \in DOMAIN last : IsDigit(last[i])
       \/ (Len(last) >= 2 /\ last[1] = "0" /\ last[2] = "x" /\ ParseIPv4Number(last).ok)))

RECURSIVE Pow256(_)
Pow256(k) == IF k = 0 THEN 1 ELSE 256 * Pow256(k - 1)

\* The IPv4 parser and serialiser: the dotted quad, or failure.  A single number
\* must be below 256^4; the numbers spelled by the inputs are below 2^31, so that
\* test is not made
ParseIPv4(host) ==
  Const(HostParts(host), LAMBDA parts :
  Const([i \in DOMAIN parts |-> ParseIPv4Number(parts[i])], LAMBDA parsed :
    IF Len(parts) > 4 \/ \E i \in DOMAIN parts : ~parsed[i].ok THEN [ok |-> FALSE]
    ELSE LET count == Len(parts)
             nums == [i \in DOMAIN parts |-> parsed[i].n]
             \* byte k of the address: the leading numbers are one byte each, the
             \* last number fills the bytes that remain
             octet(k) == IF k < count THEN nums[k]
                         ELSE (nums[count] \div Pow256(4 - k)) % 256
         IN IF \/ \E i \in 1..(count - 1) : nums[i] > 255
               \/ (count > 1 /\ nums[count] >= Pow256(5 - count))
            THEN [ok |-> FALSE]
            ELSE [ok |-> TRUE,
                  host |-> join([k \in 1..4 |-> NatToChars(octet(k))], <<".">>)]))

\* The host parser on the text between credentials and port
ParseHost(raw) ==
  IF raw = <<>> THEN [ok |-> FALSE]
  ELSE IF raw[1] = "[" THEN
    IF /\ raw[Len(raw)] = "]"
       /\ Len(raw) > 2
       /\ \A i \in 2..(Len(raw) - 1) : IsHexDigit(raw[i]) \/ raw[i] \in {":", "."}
    THEN [ok |-> TRUE, host |-> raw]
    ELSE [ok |-> FALSE]
  ELSE Const(ToLower(raw), LAMBDA lower :
         IF \E i \in DOMAIN lower : lower[i] \in ForbiddenHostChars THEN [ok |-> FALSE]
         ELSE IF EndsInNumber(lower) THEN ParseIPv4(lower)
         ELSE [ok |-> TRUE, host |-> lower])

\* Length of the scheme with its colon, 0 for a scheme other than http and https
SchemeLen(url) ==
  Const(ToLower(url), LAMBDA lower :
    IF startsWith(lower, <<"h", "t", "t", "p", "s", ":">>) THEN 6
    ELSE IF startsWith(lower, <<"h", "t", "t", "p", ":">>) THEN 5 ELSE 0)

\* Index of the colon in front of the port, 0 when there is no port
PortColon(hostport) ==
  IF hostport # <<>> /\ hostport[1] = "["
  THEN (IF LastIndexOf(hostport, ":") > LastIndexOf(hostport, "]")
        THEN LastIndexOf(hostport, ":") ELSE 0)
  ELSE LastIndexOf(hostport, ":")

\* new URL(url): [ok |-> TRUE, hostname |-> ...], or [ok |-> FALSE] when it throws
ParseUrl(url) ==
  Const(SchemeLen(url), LAMBDA schemeLen :
  IF schemeLen = 0 THEN [ok |-> FALSE]
  ELSE
  Const(SkipWhile(url, schemeLen + 1, {"/", "\\"}), LAMBDA a0 :
  Const(SubSeq(url, a0, SkipUntil(url, a0, AuthorityEnd) - 1), LAMBDA authority :
  Const(slice(authority, LastIndexOf(authority, "@")), LAMBDA hostport :
  Const(PortColon(hostport), LAMBDA colon :
  Const(IF colon = 0 THEN <<>> ELSE slice(hostport, colon), LAMBDA port :
  IF \E i \in DOMAIN port : ~IsDigit(port[i]) THEN [ok |-> FALSE]
  ELSE
  Const(ParseHost(IF colon = 0 THEN hostport ELSE SubSeq(hostport, 1, colon - 1)),
        LAMBDA h :
  IF ~h.ok THEN [ok |-> FALSE] ELSE [ok |-> TRUE, hostname |-> h.host])))))))

(***************************************************************************)
(* executor.ts: egress checks                                              *)
(***************************************************************************)
BLOCKED_HOSTS == << h_169_254_169_254 >>

\* /^172\.(1[6-9]|2[0-9]|3[0-1])\./
Matches172(h) ==
  /\ startsWith(h, <<"1", "7", "2", ".">>)
  /\ Len(h) >= 7
  /\ h[7] = "."
  /\ \/ h[5] = "1" /\ h[6] \in {"6", "7", "8", "9"}
     \/ h[5] = "2" /\ IsDigit(h[6])
     \/ h[5] = "3" /\ h[6] \in {"0", "1"}

\* PRIVATE_IP_PATTERNS.some(pattern => pattern.test(hostname))
MatchesPrivatePattern(h) ==
  \/ ToLower(h) = h_localhost
  \/ startsWith(h, <<"1", "2", "7", ".">>)
  \/ startsWith(h, <<"1", "0", ".">>)
  \/ Matches172(h)
  \/ startsWith(h, <<"1", "9", "2", ".", "1", "6", "8", ".">>)
  \/ startsWith(h, <<"1", "6", "9", ".", "2", "5", "4", ".">>)
  \/ endsWith(ToLower(h), <<".", "l", "o", "c", "a", "l">>)
  \/ endsWith(ToLower(h), <<".", "i", "n", "t", "e", "r", "n", "a", "l">>)

isPrivateHost(hostname) ==
  IF hostname \in Range(BLOCKED_HOSTS) THEN TRUE ELSE MatchesPrivatePattern(hostname)

\* One allowed_hosts entry against the hostname, with the subdomain test made on the
\* entry without its "*." (no dot kept in front of the domain)
AllowedEntryMatches_NoDot(hostname, allowed) ==
  IF startsWith(allowed, <<"*", ".">>)
  THEN endsWith(hostname, slice(allowed, 2)) \/ hostname = slice(allowed, 2)
  ELSE hostname = allowed

\* The callback of allowedHosts.some(...): one entry against the hostname
AllowedEntryMatches(hostname, allowed) ==
  IF startsWith(allowed, <<"*", ".">>)
  THEN LET suffix == slice(allowed, 1)
       IN endsWith(hostname, suffix) \/ hostname = slice(allowed, 2)
  ELSE hostname = allowed

isAllowedHost(hostname, allowedHosts) ==
  \E i \in DOMAIN allowedHosts : AllowedEntryMatches(hostname, allowedHosts[i])

(***************************************************************************)
(* Templates of the inputs are written as lists of segments, literal text  *)
(* or a placeholder; the code receives the flat text the segments spell.   *)
(***************************************************************************)
Lit(text) == [k |-> "lit", text |-> text]
Ph(scope, key) == [k |-> "ph", scope |-> scope, key |-> key]

SegText(seg) ==
  IF seg.k = "lit" THEN seg.text ELSE Open \o seg.scope \o <<".">> \o seg.key \o Close

RECURSIVE Flatten(_)
Flatten(segs) == IF Len(segs) = 0 THEN <<>> ELSE SegText(Head(segs)) \o Flatten(Tail(segs))

(***************************************************************************)
(* executor.ts: the steps of executeApiTool before the request             *)
(***************************************************************************)
MAX_TIMEOUT_MS == 60000
DEFAULT_TIMEOUT_MS == 30000

None == [t |-> "none"]
EmptyRec == [x \in {} |-> Undefined]

\* JavaScript truthiness, as !value tests it
Truthy(v) ==
  CASE v.t = "string" -> v.s # <<>>
    [] v.t = "number" -> v.n # 0
    [] v.t = "boolean" -> v.b
    [] v.t \in {"array", "object"} -> TRUE
    [] OTHER -> FALSE

\* { ...process.env, ...env } with the process environment winning a clash
MergeEnv_ProcessWins(processEnvNow, extraEnv) ==
  [k \in DOMAIN processEnvNow \cup DOMAIN extraEnv |->
     IF k \in DOMAIN processEnvNow THEN processEnvNow[k] ELSE extraEnv[k]]

\* { ...process.env, ...env }: the spread of the overrides comes last
MergeEnv(processEnvNow, extraEnv) ==
  [k \in DOMAIN processEnvNow \cup DOMAIN extraEnv |->
     IF k \in DOMAIN extraEnv THEN extraEnv[k] ELSE processEnvNow[k]]

\* checkRequiredEnvVars reporting the first missing name only
checkRequiredEnvVars_FirstOnly(requires, extraEnv, processEnvNow) ==
  Const(MergeEnv(processEnvNow, extraEnv), LAMBDA merged :
  Const(SelectSeq(requires, LAMBDA key : ~Truthy(Lookup(merged, key))), LAMBDA missing :
    IF Len(missing) > 0 THEN Throw(msg_MissingEnvVars \o missing[1])
    ELSE Return(Undefined)))

\* checkRequiredEnvVars; process.env is read where the function runs
checkRequiredEnvVars(requires, extraEnv, processEnvNow) ==
  IF Len(requires) = 0 THEN Return(Undefined)
  ELSE
  Const(MergeEnv(processEnvNow, extraEnv), LAMBDA merged :
  Const(SelectSeq(requires, LAMBDA key : ~Truthy(Lookup(merged, key))), LAMBDA missing :
    IF Len(missing) > 0
    THEN Throw(msg_MissingEnvVars \o join(missing, <<",", " ">>))
    ELSE Return(Undefined)))

RECURSIVE InterpolateHeaders(_, _)
\* for (const [key, value] of Object.entries(headers)) headers[key] = interpolateString(value, ctx)
\* the header map is a function from header name to value; the first throw wins
InterpolateHeaders(entries, ctx) ==
  IF Len(entries) = 0 THEN Return(EmptyRec)
  ELSE Then(interpolateString(Head(entries)[2], ctx, TRUE), LAMBDA value :
       Then(InterpolateHeaders(Tail(entries), ctx), LAMBDA rest :
       Return(rest @@ (Head(entries)[1] :> value))))

\* Object.entries(x) of a value: the entries of an object, index/item pairs of an array
EntriesOf(v) ==
  IF v.t = "object" THEN v.o
  ELSE IF v.t = "array" THEN [i \in DOMAIN v.a |-> << NatToChars(i - 1), v.a[i] >>]
  ELSE << >>

\* if (!headers["Content-Type"]) headers["Content-Type"] = contentType
WithDefaultContentType(headers, contentType) ==
  IF ~Truthy(IF s_ContentType \in DOMAIN headers THEN Str(headers[s_ContentType]) ELSE Undefined)
  THEN (s_ContentType :> contentType) @@ headers
  ELSE headers

\* Request body and final headers.  JSON.stringify and URLSearchParams.toString are not
\* spelled out: a json body is kept as the value it serialises, a form body as its
\* ordered name/value pairs, a text body as the text String(content) gives.
BuildBody(body, headers, ctx) ==
  IF ~body.has THEN Return([body |-> None, headers |-> headers])
  ELSE
  Then(interpolateDeep(body.content, ctx, TRUE), LAMBDA content :
    IF body.type = "json"
    THEN Return([body |-> [enc |-> "json", value |-> content],
                 headers |-> WithDefaultContentType(headers, s_application_json)])
    ELSE IF body.type = "form"
    THEN Const(EntriesOf(content), LAMBDA entries :
         Return([body |-> [enc |-> "form",
                           pairs |-> [i \in DOMAIN entries |->
                                        << entries[i][1], ToStringJS(entries[i][2]) >>]],
                 headers |-> WithDefaultContentType(headers, s_application_form)]))
    ELSE Return([body |-> [enc |-> "text", text |-> ToStringJS(content)],
                 headers |-> headers]))

Min(a, b) == IF a <= b THEN a ELSE b

\* The timeout without the ceiling: timeout_ms ?? DEFAULT_TIMEOUT_MS
EffectiveTimeout_NoCeiling(timeout_ms) ==
  IF timeout_ms = Undefined THEN DEFAULT_TIMEOUT_MS ELSE timeout_ms.n

\* Math.min(definition.request.timeout_ms ?? DEFAULT_TIMEOUT_MS, MAX_TIMEOUT_MS)
EffectiveTimeout(timeout_ms) ==
  Min(IF timeout_ms = Undefined THEN DEFAULT_TIMEOUT_MS ELSE timeout_ms.n, MAX_TIMEOUT_MS)

\* validateUrl without the allow-list test
validateUrl_SkipsAllowList(url, allowedHosts) ==
  Const(ParseUrl(url), LAMBDA parsed :
    IF ~parsed.ok THEN Throw(msg_InvalidUrl \o url)
    ELSE IF isPrivateHost(parsed.hostname)
    THEN Throw(msg_BlockedPrivate \o parsed.hostname \o <<")">>)
    ELSE Return(Undefined))

\* validateUrl consulting the allow-list before the private-host test
validateUrl_AllowListFirst(url, allowedHosts) ==
  Const(ParseUrl(url), LAMBDA parsed :
    IF ~parsed.ok THEN Throw(msg_InvalidUrl \o url)
    ELSE IF isAllowedHost(parsed.hostname, allowedHosts) THEN Return(Undefined)
    ELSE IF isPrivateHost(parsed.hostname)
    THEN Throw(msg_BlockedPrivate \o parsed.hostname \o <<")">>)
    ELSE Throw(msg_BlockedHost \o parsed.hostname \o msg_NotInAllowed
               \o join(allowedHosts, <<",", " ">>) \o <<"]">>))

\* validateUrl: returns nothing, or throws one of three errors
validateUrl(url, allowedHosts) ==
  Const(ParseUrl(url), LAMBDA parsed :
    IF ~parsed.ok THEN Throw(msg_InvalidUrl \o url)
    ELSE IF isPrivateHost(parsed.hostname)
    THEN Throw(msg_BlockedPrivate \o parsed.hostname \o <<")">>)
    ELSE IF ~isAllowedHost(parsed.hostname, allowedHosts)
    THEN Throw(msg_BlockedHost \o parsed.hostname \o msg_NotInAllowed
               \o join(allowedHosts, <<",", " ">>) \o <<"]">>)
    ELSE Return(Undefined))

\* Prepare validating the URL after the headers and the body are built
Prepare_ValidatesLast(definition, args, extraEnv, processEnvNow) ==
  Const(checkRequiredEnvVars(definition.requires_env, extraEnv, processEnvNow),
        LAMBDA chk :
  IF ~chk.ok THEN [error |-> Str(chk.message), ctx |-> None, url |-> None,
                   headers |-> None, body |-> None, timeout |-> None]
  ELSE
  Const([env |-> MergeEnv(processEnvNow, extraEnv), params |-> args,
         hasResponse |-> FALSE, response |-> EmptyRec], LAMBDA ctx :
  Const(interpolateString(Flatten(definition.request.url), ctx, TRUE), LAMBDA url :
  IF ~url.ok THEN [error |-> Str(url.message), ctx |-> ctx, url |-> None,
                   headers |-> None, body |-> None, timeout |-> None]
  ELSE
  Const(InterpolateHeaders(
          [i \in DOMAIN definition.request.headers |->
             << definition.request.headers[i][1],
                Flatten(definition.request.headers[i][2]) >>], ctx), LAMBDA hdrs :
  IF ~hdrs.ok THEN [error |-> Str(hdrs.message), ctx |-> ctx, url |-> Str(url.v),
                    headers |-> None, body |-> None, timeout |-> None]
  ELSE
  Const(BuildBody(definition.request.body, hdrs.v, ctx), LAMBDA built :
  IF ~built.ok THEN [error |-> Str(built.message), ctx |-> ctx, url |-> Str(url.v),
                     headers |-> None, body |-> None, timeout |-> None]
  ELSE
  Const(validateUrl(url.v, definition.allowed_hosts), LAMBDA valid :
  IF ~valid.ok THEN [error |-> Str(valid.message), ctx |-> ctx, url |-> Str(url.v),
                     headers |-> None, body |-> None, timeout |-> None]
  ELSE [error |-> None, ctx |-> ctx, url |-> Str(url.v), headers |-> built.v.headers,
        body |-> built.v.body,
        timeout |-> Num(EffectiveTimeout(definition.request.timeout_ms))]))))))

\* The locals of executeApiTool before fetch; None where nothing was assigned
Locals(error, ctx, url, headers, body, timeout) ==
  [error |-> error, ctx |-> ctx, url |-> url, headers |-> headers, body |-> body,
   timeout |-> timeout]

\* The synchronous part of executeApiTool, from the required-environment check to the
\* timeout: the locals it has assigned when it throws or reaches fetch.  error is None
\* when no step threw.
Prepare(definition, args, extraEnv, processEnvNow) ==
  Const(checkRequiredEnvVars(definition.requires_env, extraEnv, processEnvNow),
        LAMBDA chk :
  IF ~chk.ok THEN Locals(Str(chk.message), None, None, None, None, None)
  ELSE
  Const([env |-> MergeEnv(processEnvNow, extraEnv), params |-> args,
         hasResponse |-> FALSE, response |-> EmptyRec], LAMBDA ctx :
  Const(interpolateString(Flatten(definition.request.url), ctx, TRUE), LAMBDA url :
  IF ~url.ok THEN Locals(Str(url.message), ctx, None, None, None, None)
  ELSE
  Const(validateUrl(url.v, definition.allowed_hosts), LAMBDA valid :
  IF ~valid.ok THEN Locals(Str(valid.message), ctx, Str(url.v), None, None, None)
  ELSE
  Const(InterpolateHeaders(
          [i \in DOMAIN definition.request.headers |->
             << definition.request.headers[i][1],
                Flatten(definition.request.headers[i][2]) >>], ctx), LAMBDA hdrs :
  IF ~hdrs.ok THEN Locals(Str(hdrs.message), ctx, Str(url.v), None, None, None)
  ELSE
  Const(BuildBody(definition.request.body, hdrs.v, ctx), LAMBDA built :
  IF ~built.ok THEN Locals(Str(built.message), ctx, Str(url.v), None, None, None)
  ELSE Locals(None, ctx, Str(url.v), built.v.headers, built.v.body,
              Num(EffectiveTimeout(definition.request.timeout_ms)))))))))

(***************************************************************************)
(* executor.ts: the steps of executeApiTool after the response             *)
(***************************************************************************)
\* the ExecuteResult the caller reads back from content[0].text; JSON.stringify drops
\* the fields that are undefined
Failure(message) ==
  [success |-> FALSE, status |-> Undefined, data |-> Undefined,
   error |-> Str(message), summary |-> Undefined]

\* typeof responseData === "object" && responseData !== null
IsObjectLike(data) == data.t \in {"object", "array"}

RECURSIVE EntriesToRec(_)
\* the string-keyed record an entry list spells; a later entry wins
EntriesToRec(entries) ==
  IF Len(entries) = 0 THEN EmptyRec
  ELSE (entries[Len(entries)][1] :> entries[Len(entries)][2])
         @@ EntriesToRec(SubSeq(entries, 1, Len(entries) - 1))

\* responseData used as the response scope: its own properties by name
OwnProperties(data) ==
  IF data.t = "array" THEN (s_length :> Num(Len(data.a))) @@ EntriesToRec(EntriesOf(data))
  ELSE EntriesToRec(EntriesOf(data))

\* the response scope of the summary rendering
SummaryScope(data) ==
  IF IsObjectLike(data) THEN OwnProperties(data) ELSE (s_value :> data)

\* the response scope of the error rendering: { status, ...spread }
ErrorScope(status, data) ==
  (IF IsObjectLike(data) THEN EntriesToRec(EntriesOf(data)) ELSE (s_message :> data))
    @@ (s_status :> Num(status))

\* response.ok taken as "the status is 200"
IsOk_Only200(status) == status = 200

\* response.ok
IsOk(status) == status >= 200 /\ status <= 299

\* The summary rendering with strict env resolution
RenderSummary_Strict(definition, ctx, status, data) ==
  IF definition.response.summary # <<>> /\ IsOk(status)
  THEN Then(interpolateString(Flatten(definition.response.summary),
                              [ctx EXCEPT !.hasResponse = TRUE,
                                          !.response = SummaryScope(data)], TRUE),
            LAMBDA text : Return(Str(text)))
  ELSE Return(Undefined)

\* if (definition.response?.summary && response.ok) result.summary = ...
RenderSummary(definition, ctx, status, data) ==
  IF definition.response.summary # <<>> /\ IsOk(status)
  THEN Then(interpolateString(Flatten(definition.response.summary),
                              [ctx EXCEPT !.hasResponse = TRUE,
                                          !.response = SummaryScope(data)], FALSE),
            LAMBDA text : Return(Str(text)))
  ELSE Return(Undefined)

\* if (definition.response?.error_template && !response.ok) result.error = ...
RenderError(definition, ctx, status, data) ==
  IF definition.response.error_template # <<>> /\ ~IsOk(status)
  THEN Then(interpolateString(Flatten(definition.response.error_template),
                              [ctx EXCEPT !.hasResponse = TRUE,
                                          !.response = ErrorScope(status, data)], FALSE),
            LAMBDA text : Return(Str(text)))
  ELSE Return(Undefined)

\* The rest of the try block once the body is parsed: summary, error message, result
Finish(definition, ctx, status, data) ==
  Then(RenderSummary(definition, ctx, status, data), LAMBDA summary :
  Then(RenderError(definition, ctx, status, data), LAMBDA error :
  Return([success |-> IsOk(status), status |-> Num(status), data |-> data,
          error |-> error, summary |-> summary])))

\* try { ... return result } catch (error) { return { success: false, error: message } }
Catch(outcome) == Const(outcome, LAMBDA x : IF x.ok THEN x.v ELSE Failure(x.message))

(***************************************************************************)
(* Inputs of the template engine.  A template of the input corpus is       *)
(* written as a list of segments, literal text or a placeholder, and       *)
(* handed to interpolateString as the flat text the segments spell.        *)
(***************************************************************************)
\* Lists of segments templates are drawn from
TemplateCorpus ==
  { << Lit(s_Bearer), Ph(s_env, s_KEY) >>,
    << Ph(s_env, s_KEY), Lit(<<"/">>), Ph(s_env, s_TOK) >>,
    << Ph(s_params, s_id), Lit(<<"-">>), Ph(s_env, s_TOK) >>,
    << Ph(s_response, s_msg), Lit(<<"+">>), Ph(s_params, s_msg) >>,
    << Lit(<<"a">>), Ph(s_foo, s_bar), Lit(<<"{", "{", "e", "n", "v", ".", "}", "}">>),
       Lit(<<"{", "e", "n", "v", ".", "K", "E", "Y", "}">>) >>,
    << Lit(Open), Ph(s_params, s_msg), Lit(Close) >>,
    << Lit(<<"a", "b", "c">>) >>,
    << Ph(s_params, s_id), Ph(s_response, s_id), Ph(s_env, s_KEY), Ph(s_params, s_id) >> }

EnvCorpus ==
  { EmptyRec,
    (s_KEY :> Str(s_k1)),
    (s_KEY :> Str(<<>>)) @@ (s_TOK :> Str(s_t1)),
    (s_KEY :> Str(s_k1)) @@ (s_TOK :> Str(s_t1)) }

ParamsCorpus ==
  { EmptyRec,
    (s_id :> Num(7)),
    (s_id :> Str(<<"x">>)) @@ (s_msg :> Str(Flatten(<< Ph(s_env, s_KEY) >>))),
    (s_msg :> Null) @@ (s_id :> Bool(TRUE)) }

\* hasResponse is FALSE when the context carries no response scope
ResponseCorpus ==
  { [has |-> FALSE, rec |-> EmptyRec],
    [has |-> TRUE, rec |-> EmptyRec],
    [has |-> TRUE, rec |-> (s_msg :> Str(s_ok)) @@ (s_id :> Num(42))] }

CtxCorpus ==
  { [env |-> e, params |-> p, hasResponse |-> r.has, response |-> r.rec] :
      e \in EnvCorpus, p \in ParamsCorpus, r \in ResponseCorpus }

\* Nested values handed to interpolateDeep
DeepCorpus ==
  { Str(Flatten(<< Lit(s_Bearer), Ph(s_env, s_KEY) >>)),
    Num(3),
    Null,
    Obj(<< <<s_host, Str(Flatten(<< Lit(s_Bearer), Ph(s_env, s_TOK) >>))>>,
           <<s_bar, Obj(<< <<s_msg, Str(Flatten(<< Ph(s_params, s_msg) >>))>> >>)>> >>),
    Arr(<< Str(Flatten(<< Ph(s_params, s_id) >>)), Num(1), Bool(FALSE), Null,
           Arr(<< Str(<<"z">>), Str(Flatten(<< Ph(s_response, s_msg) >>)) >>) >>),
    Obj(<< <<s_id, Num(5)>>, <<s_msg, Arr(<< >>)>>, <<s_foo, Obj(<< >>)>>,
           <<s_bar, Arr(<< Obj(<< <<s_id, Str(Flatten(<< Ph(s_params, s_id) >>))>> >>) >>)>> >>) }

(***************************************************************************)
(* Inputs of the egress checks and of executeApiTool                       *)
(***************************************************************************)
HostnameCorpus ==
  { h_a_io, h_b_a_io, h_xa_io, h_evil_io, h_a_io \o <<".">> \o h_evil_io,
    <<"i", "o">>, <<"c", ".">> \o h_b_a_io, h_wild_a_io, <<>> }

AllowedHostsCorpus ==
  { << h_a_io >>, << h_wild_a_io >>, << h_b_a_io >>, << h_evil_io, h_wild_a_io >>,
    << <<"*", ".", "i", "o">> >>, << h_xa_io, h_a_io >>, << <<"*", ".">> >> }

\* The hosts a definition of the corpus lists besides its wildcard: each private or
\* internal address it could try to reach, listed on purpose
ListedPrivateHosts ==
  << h_wild_a_io, h_localhost, h_127_0_0_1, h_10_0_0_1, h_172_16_0_1, h_192_168_1_1,
     h_169_254_1_1, h_169_254_169_254, h_x_local, h_x_internal, h_decimal_loopback,
     h_ipv6_loopback >>

NoBody == [has |-> FALSE]
Body(type, content) == [has |-> TRUE, type |-> type, content |-> content]

\* An ApiToolRequest, ApiToolResponse and ApiToolDefinition (types.ts); an undeclared
\* template is the empty text
Request(method, url, headers, body, timeout_ms) ==
  [method |-> method, url |-> url, headers |-> headers, body |-> body,
   timeout_ms |-> timeout_ms]

Response(summary, error_template) ==
  [summary |-> summary, error_template |-> error_template]

Definition(name, parameters, requires_env, request, response, allowed_hosts) ==
  [name |-> name, parameters |-> parameters, requires_env |-> requires_env,
   request |-> request, response |-> response, allowed_hosts |-> allowed_hosts]

NoTemplates == Response(<<>>, <<>>)

DefinitionCorpus ==
  { Definition("get_item", << s_id, s_msg >>, <<>>,
      Request("GET",
              << Lit(s_https \o h_a_io \o <<"/", "v", "/">>), Ph(s_params, s_id) >>,
              <<>>, NoBody, Undefined),
      Response(<< Lit(s_got), Ph(s_response, s_msg), Lit(<<" ">>), Ph(s_env, s_TOK) >>,
               << Lit(s_failed), Ph(s_response, s_status), Lit(<<":">>),
                  Ph(s_response, s_msg) >>),
      << h_a_io >>),
    Definition("post_auth", << s_id, s_msg >>, << s_KEY, s_TOK >>,
      Request("POST",
              << Lit(s_https \o h_a_io \o <<"/">>) >>,
              << << s_Authorization, << Lit(s_Bearer), Ph(s_env, s_KEY) >> >> >>,
              Body("json", Obj(<< << s_text, Str(Flatten(<< Ph(s_params, s_msg) >>)) >> >>)),
              Num(90000)),
      NoTemplates, << h_a_io >>),
    Definition("env_url", <<>>, <<>>,
      Request("GET",
              << Lit(s_https \o h_a_io \o <<"/">>), Ph(s_env, s_KEY) >>,
              << << s_X_Tok, << Ph(s_env, s_TOK) >> >>,
                 << s_Authorization, << Lit(s_Bearer), Ph(s_env, s_KEY) >> >> >>,
              NoBody, Num(10000)),
      NoTemplates, << h_a_io >>),
    Definition("local_secret", <<>>, <<>>,
      Request("GET", << Lit(s_http \o h_localhost \o s_secret) >>, <<>>, NoBody,
              Undefined),
      NoTemplates, << h_localhost >>),
    Definition("steal", <<>>, <<>>,
      Request("GET", << Lit(s_https \o h_evil_io \o s_steal) >>, <<>>, NoBody,
              Undefined),
      NoTemplates, << h_a_io >>),
    Definition("any_host", << s_host >>, <<>>,
      Request("GET", << Lit(s_https), Ph(s_params, s_host), Lit(<<"/">>) >>, <<>>,
              NoBody, Undefined),
      NoTemplates, ListedPrivateHosts),
    Definition("any_path", << s_path >>, << s_TOK >>,
      Request("GET", << Lit(s_https \o h_a_io), Ph(s_params, s_path) >>, <<>>,
              NoBody, Undefined),
      NoTemplates, << h_a_io >>),
    Definition("bad_url", <<>>, <<>>,
      Request("GET", << Lit(s_not_a_url) >>, <<>>, NoBody, Undefined),
      NoTemplates, << h_a_io >>),
    Definition("post_form", << s_id, s_msg >>, << s_KEY >>,
      Request("POST",
              << Lit(s_https \o h_b_a_io \o <<"/", "f">>) >>,
              << << s_ContentType, << Lit(s_text_plain) >> >> >>,
              Body("form", Obj(<< << s_id, Str(Flatten(<< Ph(s_params, s_id) >>)) >>,
                                  << s_bar, Num(1) >>,
                                  << s_foo, Str(Flatten(<< Ph(s_env, s_TOK) >>)) >> >>)),
              Num(60000)),
      NoTemplates, << h_wild_a_io >>),
    Definition("post_text", << s_id, s_msg >>, <<>>,
      Request("POST",
              << Lit(s_https \o h_a_io \o <<"/", "t">>) >>,
              <<>>, Body("text", Str(Flatten(<< Lit(s_got), Ph(s_params, s_msg) >>))),
              Num(60001)),
      Response(<< Lit(s_got), Ph(s_response, s_value) >>,
               << Lit(s_failed), Ph(s_response, s_value) >>),
      << h_a_io >>),
    Definition("post_json", <<>>, <<>>,
      Request("POST",
              << Lit(s_https \o h_a_io \o <<"/", "j">>) >>,
              << << s_content_type, << Lit(s_text_plain) >> >> >>,
              Body("json", Obj(<< << s_id, Num(1) >> >>)),
              Undefined),
      NoTemplates, << h_a_io >>),
    Definition("ordered", << s_host >>, << s_KEY >>,
      Request("POST",
              << Lit(s_https), Ph(s_params, s_host), Lit(<<"/">>), Ph(s_env, s_TOK) >>,
              << << s_X_Tok, << Ph(s_env, s_foo) >> >> >>,
              Body("text", Str(Flatten(<< Ph(s_env, s_bar) >>))),
              Undefined),
      NoTemplates, << h_a_io >>) }

HostArgs ==
  { h_a_io, h_b_a_io, h_xa_io, h_LocalHost, h_127_0_0_1, h_short_loopback,
    h_decimal_loopback, h_10_0_0_1, h_172_16_0_1, h_172_32_0_1, h_192_168_1_1,
    h_169_254_1_1, h_169_254_169_254, h_x_local, h_x_internal, h_ipv6_loopback }

\* Argument records calls are drawn from
ArgsCorpus ==
  { EmptyRec,
    (s_id :> Num(7)),
    (s_id :> Str(<<"x">>)) @@ (s_msg :> Str(Flatten(<< Ph(s_env, s_KEY) >>))),
    (s_path :> Str(s_at_evil)),
    (s_path :> Str(<<"/", "x">>)) }
  \cup { (s_host :> Str(h)) : h \in HostArgs }

\* The arguments of a tool call: the host validates them against the schema
\* buildParameterSchema derives from the definition, so they name declared parameters
ArgsFor(definition) ==
  { args \in ArgsCorpus : DOMAIN args \subseteq Range(definition.parameters) }

\* process.env
ProcessEnvCorpus ==
  { EmptyRec,
    (s_KEY :> Str(s_k1)),
    (s_KEY :> Str(s_k1)) @@ (s_TOK :> Str(s_t1)) }

\* params.extraEnv; the empty record also stands for an absent extraEnv.  The plugin
\* passes TENANT_ID: "" when it finds no tenant, so an override may be empty text.
ExtraEnvCorpus ==
  { EmptyRec,
    (s_KEY :> Str(s_k2)),
    (s_TOK :> Str(<<>>)),
    (s_KEY :> Str(<<>>)) @@ (s_TOK :> Str(s_t2)) }

\* HTTP status codes and content kinds of the responses
StatusCorpus == { 200, 299, 300, 404 }
ContentKinds == { "json", "text" }

\* What response.json() / response.text() yield
PayloadCorpus(kind) ==
  IF kind = "json"
  THEN { Obj(<< << s_msg, Str(s_ok) >>, << s_id, Num(42) >> >>),
         Obj(<< << s_status, Num(7) >>, << s_message, Str(s_bar) >> >>),
         Arr(<< Str(<<"x">>), Num(1) >>),
         Obj(<< << s_msg, Str(Flatten(<< Ph(s_env, s_TOK) >>)) >> >>),
         Null }
  ELSE { Str(s_ok) }

(***************************************************************************)
(* State                                                                   *)
(***************************************************************************)
VARIABLES
  fn,           \* the pure function under call: its name, or "none"
  arg,          \* its arguments
  ret,          \* [done |-> FALSE] before the call, [done |-> TRUE, out |-> outcome] after
  processEnv,   \* process.env
  definitions,  \* the tool definitions the host holds
  active,       \* the invocation slots in use
  ex,           \* per slot: one invocation of executeApiTool, its inputs and locals
  calls,        \* invocations started so far
  directory,    \* the api-tools directory as the file system has it
  lastLoad,     \* what the latest call of loadToolDefinitions returned
  phase,        \* "none", "loaded", "changed" (directory changed since the latest
                \* load) or "reloaded" (loaded again after a change)
  current,      \* the store tenantContextStorage.getStore() gives the code running now
  running,      \* the execution chain that is running, 0 between event-loop turns
  chains,       \* per execution chain: where it is and the store its continuation keeps
  seen,         \* the latest reading of the getters: by which chain, what, inside what
  lastExit,     \* how the latest callback or chain ended
  tenants       \* the in-memory tenant store: Map entries << id, tenant >> in insertion order

vars == << fn, arg, ret, processEnv, definitions, active, ex, calls, directory, lastLoad, phase,
          current, running, chains, seen, lastExit, tenants >>
pureVars == << fn, arg, ret >>
execVars == << processEnv, definitions, active, ex, calls >>
loaderVars == << directory, lastLoad, phase >>
contextVars == << current, running, chains, seen, lastExit >>
storeVars == << tenants >>
otherVars == << loaderVars, contextVars, storeVars >>

SlotIds == { 1, 2 }
MaxCalls == 2

Pending == [done |-> FALSE]
Done(out) == [done |-> TRUE, out |-> out]

\* A slot with no invocation
IdleSlot ==
  [pc |-> "idle", definition |-> None, args |-> None, extraEnv |-> None,
   processEnvAtCall |-> None, ctx |-> None, url |-> None, request |-> None,
   timeout |-> None, timer |-> "none", response |-> None, result |-> None,
   promise |-> "none", sent |-> 0, deadlinePassed |-> FALSE, responseData |-> None,
   held |-> None]

ExecIdle ==
  /\ processEnv = EmptyRec
  /\ definitions = {}
  /\ active = {}
  /\ ex = [i \in SlotIds |-> IdleSlot]
  /\ calls = 0

PureIdle ==
  /\ fn = "none"
  /\ arg = None
  /\ ret = Pending

(***************************************************************************)
(* yaml-loader.ts: validateDefinition and loadToolDefinitions.  A file is   *)
(* held as what reading and parsing it gives: readFileSync may throw,       *)
(* parseYaml may throw, or the parser yields a value.  console.warn is      *)
(* recorded as the list of file names warned about.                         *)
(***************************************************************************)
s_name == <<"n", "a", "m", "e">>
s_description == <<"d", "e", "s", "c", "r", "i", "p", "t", "i", "o", "n">>
s_request == <<"r", "e", "q", "u", "e", "s", "t">>
s_method == <<"m", "e", "t", "h", "o", "d">>
s_url == <<"u", "r", "l">>
s_allowed_hosts == <<"a", "l", "l", "o", "w", "e", "d", "_", "h", "o", "s", "t", "s">>
s_parameters == <<"p", "a", "r", "a", "m", "e", "t", "e", "r", "s">>
s_type == <<"t", "y", "p", "e">>
s_yaml == <<".", "y", "a", "m", "l">>
s_yml == <<".", "y", "m", "l">>
s_txt == <<".", "t", "x", "t">>
msg_ReadFailed == <<"E", "N", "O", "E", "N", "T">>
msg_ParseFailed == <<"b", "a", "d", " ", "i", "n", "d", "e", "n", "t", "a", "t", "i", "o", "n">>

\* typeof value
TypeOf(v) ==
  CASE v.t \in {"object", "array", "null"} -> "object"
    [] OTHER -> v.t

\* value[key] for a parsed document: an own key of an object, undefined otherwise
Prop(v, key) == IF v.t = "object" THEN Lookup(EntriesToRec(v.o), key) ELSE Undefined

\* TOOL_NAME_PATTERN = /^[a-z][a-z0-9_]*$/ tested on a string
TOOL_NAME_PATTERN(name) ==
  /\ Len(name) >= 1
  /\ name[1] \in Range(LowerLetters)
  /\ \A k \in 2..Len(name) : name[k] \in Range(LowerLetters) \cup Range(DigitChars) \cup {"_"}

HttpMethods == { <<"G", "E", "T">>, <<"P", "O", "S", "T">>, <<"P", "U", "T">>, <<"P", "A", "T", "C", "H">>, <<"D", "E", "L", "E", "T", "E">> }
ParameterTypes == { <<"s", "t", "r", "i", "n", "g">>, <<"n", "u", "m", "b", "e", "r">>, <<"b", "o", "o", "l", "e", "a", "n">>, <<"i", "n", "t", "e", "g", "e", "r">> }

\* list.includes(value) for a list of strings: strict equality, so only a string matches
Includes(list, value) == value.t = "string" /\ value.s \in list

\* typeof d.name === "string" && TOOL_NAME_PATTERN.test(d.name)
ValidName(d) ==
  TypeOf(Prop(d, s_name)) = "string" /\ TOOL_NAME_PATTERN(Prop(d, s_name).s)

\* typeof d.description === "string"
ValidDescription(d) == TypeOf(Prop(d, s_description)) = "string"

\* the request block: an object with a listed method and a string url
ValidRequest(d) ==
  \E req \in { Prop(d, s_request) } :
    /\ Truthy(req) /\ TypeOf(req) = "object"
    /\ Includes(HttpMethods, Prop(req, s_method))
    /\ TypeOf(Prop(req, s_url)) = "string"

\* Array.isArray(d.allowed_hosts) && d.allowed_hosts.length !== 0
ValidAllowedHosts(d) ==
  \E hosts \in { Prop(d, s_allowed_hosts) } : hosts.t = "array" /\ Len(hosts.a) # 0

\* The parameter check without the test of each parameter's type
ValidParameters_AnyType(d) ==
  \E parameters \in { Prop(d, s_parameters) } :
    \/ parameters = Undefined
    \/ /\ TypeOf(parameters) = "object" /\ parameters # Null
       /\ \A k \in DOMAIN EntriesOf(parameters) :
            \E param \in { EntriesOf(parameters)[k][2] } :
              Truthy(param) /\ TypeOf(param) = "object"

\* parameters, if present: an object whose every entry is an object with a listed type
ValidParameters(d) ==
  \E parameters \in { Prop(d, s_parameters) } :
    \/ parameters = Undefined
    \/ /\ TypeOf(parameters) = "object" /\ parameters # Null
       /\ \A k \in DOMAIN EntriesOf(parameters) :
            \E param \in { EntriesOf(parameters)[k][2] } :
              /\ Truthy(param) /\ TypeOf(param) = "object"
              /\ Includes(ParameterTypes, Prop(param, s_type))

\* validateDefinition(def, filename): def itself, or null after a warning
validateDefinition(def) ==
  IF ~Truthy(def) \/ TypeOf(def) # "object" THEN Null
  ELSE IF ~ValidName(def) THEN Null
  ELSE IF ~ValidDescription(def) THEN Null
  ELSE IF ~ValidRequest(def) THEN Null
  ELSE IF ~ValidAllowedHosts(def) THEN Null
  ELSE IF ~ValidParameters(def) THEN Null
  ELSE def

\* file.endsWith(".yaml") || file.endsWith(".yml")
IsDefinitionFile(file) == endsWith(file.name, s_yaml) \/ endsWith(file.name, s_yml)

\* readFileSync, parseYaml, validateDefinition in sequence: the first throw ends it
ReadAndValidate(file) ==
  Then(file.read, LAMBDA content :
  Then(file.parse, LAMBDA parsed :
  Return(validateDefinition(parsed))))

\* A loop body whose error escapes the loop
CatchFileError_Rethrows(error, file) == error

\* catch (error) { console.warn(...) }: the file yields nothing
CatchFileError(error, file) == Return(Null)

\* What the loader has gathered: the definitions pushed and the files warned about
Loaded(pushed, warned) == [definitions |-> pushed, warned |-> warned]

RECURSIVE LoadFiles(_, _)
\* for (const file of files) { ... } from the given files on
LoadFiles(files, loaded) ==
  IF Len(files) = 0 THEN Return(loaded)
  ELSE IF ~IsDefinitionFile(Head(files)) THEN LoadFiles(Tail(files), loaded)
  ELSE
  Const(ReadAndValidate(Head(files)), LAMBDA outcome :
  Then(IF outcome.ok THEN outcome ELSE CatchFileError(outcome, Head(files)),
       LAMBDA validated :
    LoadFiles(Tail(files),
              IF Truthy(validated)
              THEN Loaded(Append(loaded.definitions, validated), loaded.warned)
              ELSE Loaded(loaded.definitions, Append(loaded.warned, Head(files).name)))))

\* A loader that lists the directory without the existence test and the try
loadToolDefinitions_ListsUnguarded(dir) ==
  IF ~dir.exists \/ ~dir.listable THEN Throw(msg_ReadFailed)
  ELSE LoadFiles(dir.files, Loaded(<<>>, <<>>))

\* loadToolDefinitions(agentDir) on the api-tools directory as the file system has it
loadToolDefinitions(dir) ==
  IF ~dir.exists THEN Return(Loaded(<<>>, <<>>))
  ELSE IF ~dir.listable THEN Return(Loaded(<<>>, <<>>))
  ELSE LoadFiles(dir.files, Loaded(<<>>, <<>>))

\* A file of the directory
File(name, read, parse) == [name |-> name, read |-> read, parse |-> parse]

\* doc with its field key set to value (added when absent) and without it
WithField(doc, key, value) ==
  Obj(SelectSeq(doc.o, LAMBDA e : e[1] # key) \o << << key, value >> >>)
WithoutField(doc, key) == Obj(SelectSeq(doc.o, LAMBDA e : e[1] # key))

\* The document of the loader test "loads valid YAML definitions", without parameters
PlainDoc ==
  Obj(<< << s_name, Str(<<"t", "e", "s", "t", "_", "t", "o", "o", "l">>) >>,
         << s_description, Str(<<"A", " ", "t", "e", "s", "t", " ", "t", "o", "o", "l">>) >>,
         << s_request, Obj(<< << s_method, Str(<<"G", "E", "T">>) >>,
                              << s_url, Str(s_https \o h_a_io \o <<"/">>) >> >>) >>,
         << s_allowed_hosts, Arr(<< Str(h_a_io) >>) >> >>)

ParamOf(type) == Obj(<< << s_type, type >> >>)

ValidDocs ==
  { PlainDoc,
    WithField(PlainDoc, s_description, Str(<<>>)),
    WithField(PlainDoc, s_parameters,
              Obj(<< << s_id, ParamOf(Str(<<"s", "t", "r", "i", "n", "g">>)) >>,
                     << s_msg, ParamOf(Str(<<"i", "n", "t", "e", "g", "e", "r">>)) >> >>)),
    WithField(PlainDoc, s_parameters, Arr(<<>>)) }

InvalidDocs ==
  { Null, Str(<<"t", "e", "s", "t", "_", "t", "o", "o", "l">>), Arr(<< PlainDoc >>),
    WithoutField(PlainDoc, s_name),
    WithField(PlainDoc, s_name, Num(1)),
    WithField(PlainDoc, s_name, Str(<<"B", "a", "d">>)),
    WithField(PlainDoc, s_name, Str(<<"a", "-", "b">>)),
    WithField(PlainDoc, s_name, Str(<<>>)),
    WithoutField(PlainDoc, s_description),
    WithField(PlainDoc, s_description, Num(1)),
    WithoutField(PlainDoc, s_request),
    WithField(PlainDoc, s_request, Str(<<"G", "E", "T">>)),
    WithField(PlainDoc, s_request, Obj(<< << s_method, Str(<<"g", "e", "t">>) >>,
                                          << s_url, Str(s_https \o h_a_io) >> >>)),
    WithField(PlainDoc, s_request, Obj(<< << s_method, Str(<<"G", "E", "T">>) >> >>)),
    WithField(PlainDoc, s_request, Obj(<< << s_method, Str(<<"G", "E", "T">>) >>,
                                          << s_url, Num(1) >> >>)),
    WithoutField(PlainDoc, s_allowed_hosts),
    WithField(PlainDoc, s_allowed_hosts, Arr(<<>>)),
    WithField(PlainDoc, s_allowed_hosts, Str(h_a_io)),
    WithField(PlainDoc, s_parameters, Null),
    WithField(PlainDoc, s_parameters, Str(<<"s", "t", "r", "i", "n", "g">>)),
    WithField(PlainDoc, s_parameters, Obj(<< << s_id, Str(<<"s", "t", "r", "i", "n", "g">>) >> >>)),
    WithField(PlainDoc, s_parameters, Obj(<< << s_id, ParamOf(Str(<<"f", "l", "o", "a", "t">>)) >> >>)),
    WithField(PlainDoc, s_parameters, Obj(<< << s_id, ParamOf(Str(<<"s", "t", "r", "i", "n", "g">>)) >>,
                                             << s_msg, Obj(<<>>) >> >>)) }

\* What a file of the directory may hold: a readable file parses to a document or
\* makes the parser throw; the extension varies for a file that holds a valid document
FileChoices ==
  { [ext |-> s_yaml, read |-> Throw(msg_ReadFailed), parse |-> Throw(msg_ParseFailed)],
    [ext |-> s_yaml, read |-> Return(<<>>), parse |-> Throw(msg_ParseFailed)] }
  \cup { [ext |-> s_yaml, read |-> Return(<<>>), parse |-> Return(doc)] :
           doc \in ValidDocs \cup InvalidDocs }
  \cup { [ext |-> ext, read |-> Return(<<>>), parse |-> Return(PlainDoc)] :
           ext \in { s_yml, s_txt } }

MaxFiles == 2

\* The n-th entry of a listing: its name tells its place
NamedFile(n, choice) == File(NatToChars(n) \o choice.ext, choice.read, choice.parse)

Directory(exists, listable, files) ==
  [exists |-> exists, listable |-> listable, files |-> files]

(***************************************************************************)
(* executor.ts: buildParameterSchema.  A TypeBox schema is held as its kind, *)
(* its description, the literals of a union and whether it is wrapped in    *)
(* Type.Optional; Type.Object lists as required the properties that are not *)
(* optional.                                                                *)
(***************************************************************************)
s_required == <<"r", "e", "q", "u", "i", "r", "e", "d">>
s_enum == <<"e", "n", "u", "m">>
s_visibility == <<"v", "i", "s", "i", "b", "i", "l", "i", "t", "y">>
msg_MapNotFunction == <<"p", "a", "r", "a", "m", ".", "e", "n", "u", "m", ".", "m", "a", "p", " ", "i", "s", " ", "n", "o", "t", " ", "a", " ", "f", "u", "n", "c", "t", "i", "o", "n">>

Schema(kind, description, literals, optional) ==
  [kind |-> kind, description |-> description, literals |-> literals,
   optional |-> optional]

\* Type.Object(properties): the properties and the names of those not optional
TypeObject(properties) ==
  [type |-> "object", properties |-> properties,
   required |-> SelectSeq([k \in DOMAIN properties |-> properties[k][1]],
                          LAMBDA name : \E k \in DOMAIN properties :
                                           /\ properties[k][1] = name
                                           /\ ~properties[k][2].optional)]

\* switch (param.type): the base schema of one declaration
BaseSchema(param) ==
  Const(Prop(param, s_type), LAMBDA type :
  Const(Prop(param, s_enum), LAMBDA enum :
  Const(Prop(param, s_description), LAMBDA description :
    IF type = Str(<<"s", "t", "r", "i", "n", "g">>) /\ Truthy(enum) /\ enum.t = "string" /\ Len(enum.s) > 0
    THEN Throw(msg_MapNotFunction)
    ELSE IF type = Str(<<"s", "t", "r", "i", "n", "g">>) /\ Truthy(enum) /\ enum.t = "array" /\ Len(enum.a) > 0
    THEN Return(Schema("Union", description, enum.a, FALSE))
    ELSE IF type = Str(<<"n", "u", "m", "b", "e", "r">>) THEN Return(Schema("Number", description, <<>>, FALSE))
    ELSE IF type = Str(<<"i", "n", "t", "e", "g", "e", "r">>) THEN Return(Schema("Integer", description, <<>>, FALSE))
    ELSE IF type = Str(<<"b", "o", "o", "l", "e", "a", "n">>) THEN Return(Schema("Boolean", description, <<>>, FALSE))
    ELSE Return(Schema("String", description, <<>>, FALSE)))))

\* if (param.required) properties[name] = schema; else Type.Optional(schema)
WrapOptional(param, schema) ==
  IF Truthy(Prop(param, s_required)) THEN schema ELSE [schema EXCEPT !.optional = TRUE]

RECURSIVE SchemaProperties(_)
\* for (const [name, param] of Object.entries(parameters)) { ... }
SchemaProperties(entries) ==
  IF Len(entries) = 0 THEN Return(<<>>)
  ELSE Then(BaseSchema(Head(entries)[2]), LAMBDA schema :
       Then(SchemaProperties(Tail(entries)), LAMBDA rest :
       Return(<< << Head(entries)[1], WrapOptional(Head(entries)[2], schema) >> >> \o rest)))

\* buildParameterSchema(parameters)
buildParameterSchema(parameters) ==
  IF ~Truthy(parameters) \/ Len(EntriesOf(parameters)) = 0 THEN Return(TypeObject(<<>>))
  ELSE Then(SchemaProperties(EntriesOf(parameters)), LAMBDA properties :
       Return(TypeObject(properties)))

\* Parameter declarations: those of the schema-builder tests and others the loader
\* accepts, whose "required" is absent, a boolean or a text
DeclarationCorpus ==
  { Obj(<< << s_type, Str(<<"s", "t", "r", "i", "n", "g">>) >>, << s_description, Str(<<"T", "h", "e", " ", "t", "e", "x", "t">>) >>,
           << s_required, Bool(TRUE) >> >>),
    Obj(<< << s_type, Str(<<"s", "t", "r", "i", "n", "g">>) >>,
           << s_enum, Arr(<< Str(<<"P", "U", "B", "L", "I", "C">>), Str(<<"P", "R", "I", "V", "A", "T", "E">>) >>) >>,
           << s_required, Bool(FALSE) >> >>),
    Obj(<< << s_type, Str(<<"n", "u", "m", "b", "e", "r">>) >> >>),
    Obj(<< << s_type, Str(<<"i", "n", "t", "e", "g", "e", "r">>) >>, << s_required, Bool(TRUE) >> >>),
    Obj(<< << s_type, Str(<<"b", "o", "o", "l", "e", "a", "n">>) >>, << s_required, Bool(FALSE) >> >>),
    Obj(<< << s_type, Str(<<"s", "t", "r", "i", "n", "g">>) >>, << s_required, Str(<<"n", "o">>) >> >>),
    Obj(<< << s_type, Str(<<"s", "t", "r", "i", "n", "g">>) >>, << s_enum, Arr(<<>>) >> >>),
    Obj(<< << s_type, Str(<<"s", "t", "r", "i", "n", "g">>) >>, << s_enum, Str(<<"P", "U", "B", "L", "I", "C">>) >> >>) }

ParametersCorpus ==
  { Undefined, Obj(<<>>) }
  \cup { Obj(<< << s_text, d >> >>) : d \in DeclarationCorpus }
  \cup { Obj(<< << s_text, d >>, << s_visibility, e >> >>) :
           d \in DeclarationCorpus, e \in DeclarationCorpus }

(***************************************************************************)
(* The loader over a directory that changes between loads                  *)
(***************************************************************************)
LoaderIdle ==
  /\ directory = Directory(FALSE, FALSE, <<>>)
  /\ lastLoad = Pending
  /\ phase = "none"

\* What the files written between loads hold
WrittenChoices ==
  { [ext |-> s_yaml, read |-> Return(<<>>), parse |-> Throw(msg_ParseFailed)],
    [ext |-> s_yaml, read |-> Return(<<>>), parse |-> Return(PlainDoc)],
    [ext |-> s_yaml, read |-> Return(<<>>),
     parse |-> Return(WithField(PlainDoc, s_parameters, Arr(<<>>)))],
    [ext |-> s_yaml, read |-> Return(<<>>), parse |-> Return(WithoutField(PlainDoc, s_name))] }

\* The place in the listing a file's name gives it
SlotOf(file) == IndexIn(file.name[1], DigitChars) - 1

Changed(now) == IF now = "none" THEN "none" ELSE "changed"

\* a file is written under a name the directory does not hold yet
AddFile ==
  /\ directory.exists
  /\ \E k \in 1..MaxFiles, choice \in WrittenChoices :
       /\ \A j \in DOMAIN directory.files : SlotOf(directory.files[j]) # k
       /\ directory' =
            [directory EXCEPT !.files =
               SelectSeq(directory.files, LAMBDA f : SlotOf(f) < k)
                 \o << NamedFile(k, choice) >>
                 \o SelectSeq(directory.files, LAMBDA f : SlotOf(f) > k)]
  /\ phase' = Changed(phase)
  /\ UNCHANGED << pureVars, execVars, contextVars, storeVars, lastLoad >>

\* a file of the directory is overwritten
EditFile ==
  /\ \E j \in DOMAIN directory.files, choice \in WrittenChoices :
       /\ NamedFile(SlotOf(directory.files[j]), choice) # directory.files[j]
       /\ directory' =
            [directory EXCEPT !.files[j] = NamedFile(SlotOf(directory.files[j]), choice)]
  /\ phase' = Changed(phase)
  /\ UNCHANGED << pureVars, execVars, contextVars, storeVars, lastLoad >>

\* a file of the directory is removed
RemoveFile ==
  /\ \E j \in DOMAIN directory.files :
       directory' =
         [directory EXCEPT !.files = SelectSeq(directory.files, LAMBDA f : f # directory.files[j])]
  /\ phase' = Changed(phase)
  /\ UNCHANGED << pureVars, execVars, contextVars, storeVars, lastLoad >>

\* the api-tools directory is created, removed when empty, or its permissions change
ChangeDirectory ==
  /\ \/ ~directory.exists /\ directory' = Directory(TRUE, TRUE, <<>>)
     \/ directory.exists /\ directory.files = <<>>
          /\ directory' = Directory(FALSE, FALSE, <<>>)
     \/ directory.exists /\ directory' = [directory EXCEPT !.listable = ~directory.listable]
  /\ phase' = Changed(phase)
  /\ UNCHANGED << pureVars, execVars, contextVars, storeVars, lastLoad >>

\* A load that answers from what the first load returned
Load_KeepsFirst ==
  /\ lastLoad' = IF lastLoad.done THEN lastLoad ELSE Done(loadToolDefinitions(directory))
  /\ phase' = IF phase \in {"none", "loaded"} THEN "loaded" ELSE "reloaded"
  /\ UNCHANGED << pureVars, execVars, contextVars, storeVars, directory >>

\* loadToolDefinitions(agentDir): one synchronous call
Load ==
  /\ lastLoad' = Done(loadToolDefinitions(directory))
  /\ phase' = IF phase \in {"none", "loaded"} THEN "loaded" ELSE "reloaded"
  /\ UNCHANGED << pureVars, execVars, contextVars, storeVars, directory >>

(***************************************************************************)
(* tenant-context.ts over AsyncLocalStorage.  One store is visible to the   *)
(* code that runs; run() sets it for the callback and puts the previous one *)
(* back when the callback returns or throws; a continuation runs with the   *)
(* store that was visible when it was created.  An execution chain is the   *)
(* top-level code of one event-loop turn or an async callback and its       *)
(* continuations.                                                           *)
(***************************************************************************)
TenantContext(tenantId, stateDir) == [tenantId |-> tenantId, stateDir |-> stateDir]

\* getTenantContext(): tenantContextStorage.getStore()
getTenantContext(store) == store

\* getTenantIdFromContext(): getStore()?.tenantId ?? null
getTenantIdFromContext(store) ==
  IF store = Undefined \/ store.tenantId \in {Undefined, Null} THEN Null ELSE store.tenantId

\* getTenantStateDirFromContext(): getStore()?.stateDir ?? null
getTenantStateDirFromContext(store) ==
  IF store = Undefined \/ store.stateDir \in {Undefined, Null} THEN Null ELSE store.stateDir

\* What the three getters give under a store
Getters(store) ==
  [context |-> getTenantContext(store), tenantId |-> getTenantIdFromContext(store),
   stateDir |-> getTenantStateDirFromContext(store)]

\* tenantContextStorage.run(context, callback): the store the callback runs with
RunStore(context, previous) == context

\* A continuation that runs with whatever store is in place when it is resumed
StoreOnResume_Ambient(captured, ambient) == ambient

\* The store a continuation runs with: the one visible when it was created
StoreOnResume(captured, ambient) == captured

ChainIds == { 1, 2, 3 }
MaxDepth == 2

\* The contexts of the tests: a tenant, and one with empty values
ContextCorpus ==
  { TenantContext(Str(<<"t", "e", "n", "a", "n", "t", "-", "a">>), Str(<<"/", "d", "a", "t", "a", "/", "t", "e", "n", "a", "n", "t", "s", "/", "t", "e", "n", "a", "n", "t", "-", "a">>)),
    TenantContext(Str(<<>>), Str(<<>>)) }

IdleChain ==
  [pc |-> "idle", base |-> Undefined, frames |-> <<>>, captured |-> Undefined]

ContextIdle ==
  /\ current = Undefined
  /\ running = 0
  /\ chains = [t \in ChainIds |-> IdleChain]
  /\ seen = None
  /\ lastExit = "none"

\* The context of the innermost run call that encloses the chain's code now
Innermost(chain) ==
  IF chain.frames # <<>> THEN chain.frames[Len(chain.frames)].context ELSE chain.base

\* an event-loop turn starts top-level code
Begin(t) ==
  /\ running = 0 /\ chains[t].pc = "idle"
  /\ running' = t
  /\ current' = Undefined
  /\ chains' = [chains EXCEPT ![t] = [IdleChain EXCEPT !.pc = "running"]]
  /\ UNCHANGED << pureVars, execVars, loaderVars, storeVars, seen, lastExit >>

\* the running code calls the getters
ReadContext(t) ==
  /\ running = t
  /\ seen' = [by |-> t, got |-> Getters(current), within |-> Innermost(chains[t])]
  /\ UNCHANGED << pureVars, execVars, loaderVars, storeVars, current, running, chains, lastExit >>

\* runWithTenantContext(context, callback): the callback starts
EnterSync(t) ==
  /\ running = t /\ Len(chains[t].frames) < MaxDepth
  /\ \E context \in ContextCorpus :
       /\ chains' = [chains EXCEPT ![t].frames =
                       Append(chains[t].frames, [context |-> context, previous |-> current])]
       /\ current' = RunStore(context, current)
  /\ UNCHANGED << pureVars, execVars, loaderVars, storeVars, running, seen, lastExit >>

\* the callback of runWithTenantContext returns or throws: the previous store is back
ExitSync(t) ==
  /\ running = t /\ chains[t].frames # <<>>
  /\ lastExit' \in { "return", "throw" }
  /\ chains' = [chains EXCEPT ![t].frames =
                  SubSeq(chains[t].frames, 1, Len(chains[t].frames) - 1)]
  /\ current' = chains[t].frames[Len(chains[t].frames)].previous
  /\ UNCHANGED << pureVars, execVars, loaderVars, storeVars, running, seen >>

\* runWithTenantContextAsync(context, callback): the callback runs under the context up
\* to its first await, where its continuation keeps the store; run() returns to the
\* caller with the previous store in place
SpawnAsync(t, u) ==
  /\ running = t /\ u # t /\ chains[u].pc = "idle"
  /\ \E context \in ContextCorpus :
       chains' = [chains EXCEPT ![u] =
                    [IdleChain EXCEPT !.pc = "suspended", !.base = context,
                                      !.captured = RunStore(context, current)]]
  /\ UNCHANGED << pureVars, execVars, loaderVars, storeVars, current, running, seen, lastExit >>

\* the running chain awaits: its continuation keeps the store visible now
Suspend(t) ==
  /\ running = t /\ chains[t].frames = <<>>
  /\ chains' = [chains EXCEPT ![t].pc = "suspended", ![t].captured = current]
  /\ running' = 0
  /\ current' = Undefined
  /\ UNCHANGED << pureVars, execVars, loaderVars, storeVars, seen, lastExit >>

\* a continuation of a suspended chain runs
Resume(t) ==
  /\ running = 0 /\ chains[t].pc = "suspended"
  /\ running' = t
  /\ current' = StoreOnResume(chains[t].captured, current)
  /\ chains' = [chains EXCEPT ![t].pc = "running"]
  /\ UNCHANGED << pureVars, execVars, loaderVars, storeVars, seen, lastExit >>

\* the chain ends: its promise resolves or rejects
EndChain(t) ==
  /\ running = t /\ chains[t].frames = <<>>
  /\ lastExit' \in { "resolve", "reject" }
  /\ chains' = [chains EXCEPT ![t] = IdleChain]
  /\ running' = 0
  /\ current' = Undefined
  /\ UNCHANGED << pureVars, execVars, loaderVars, storeVars, seen >>

(***************************************************************************)
(* The tenant store (src/saas/tenant-manager.ts)                           *)
(***************************************************************************)
s_tenant_dash == <<"t", "e", "n", "a", "n", "t", "-">>
s_agent_dash == <<"a", "g", "e", "n", "t", "-">>
s_sk_dash == <<"s", "k", "-">>
s_acme == <<"a", "c", "m", "e">>
s_globex == <<"g", "l", "o", "b", "e", "x">>

\* String.prototype.slice(0, n)
SliceTo(s, n) == SubSeq(s, 1, IF n < Len(s) THEN n ELSE Len(s))

\* replace(/-/g, "")
WithoutDashes(s) == SelectSeq(s, LAMBDA c : c # "-")

\* values randomUUID() can return; the first two agree in their first 8 characters
uuid_1 ==
  <<"1", "b", "4", "e", "2", "8", "b", "a", "-", "2", "f", "a", "1", "-", "4", "d", "8", "8", "-", "8", "8", "3", "f", "-", "0", "0", "1", "6", "d", "3", "c", "c", "a", "4", "2", "7">>
uuid_2 ==
  <<"1", "b", "4", "e", "2", "8", "b", "a", "-", "9", "c", "6", "f", "-", "4", "a", "1", "1", "-", "b", "0", "c", "4", "-", "5", "f", "6", "d", "2", "a", "7", "e", "9", "d", "1", "0">>
uuid_3 ==
  <<"7", "c", "9", "e", "6", "6", "7", "9", "-", "7", "4", "2", "5", "-", "4", "0", "d", "e", "-", "9", "4", "4", "b", "-", "e", "0", "7", "f", "c", "1", "f", "9", "0", "a", "e", "7">>
UuidCorpus == { uuid_1, uuid_2, uuid_3 }
NameCorpus == { s_acme, s_globex }

\* the tenant object of createTenant (createdAt, the wall-clock time, is left out)
NewTenant(id, name, keyUuid) ==
  [ id |-> id,
    name |-> name,
    accountId |-> s_tenant_dash \o SliceTo(id, 8),
    agentId |-> s_agent_dash \o SliceTo(id, 8),
    channels |-> << >>,
    apiKey |-> s_sk_dash \o WithoutDashes(keyUuid) ]

\* Map.prototype.set: a held key keeps its place and gets the new value
MapSet(map, key, value) ==
  IF \E k \in DOMAIN map : map[k][1] = key
  THEN [k \in DOMAIN map |-> IF map[k][1] = key THEN << key, value >> ELSE map[k]]
  ELSE Append(map, << key, value >>)

\* listTenants(): Array.from(tenants.values())
listTenants == [k \in DOMAIN tenants |-> tenants[k][2]]

StoreIdle == tenants = << >>

createTenant(name) ==
  /\ \E id \in UuidCorpus : \E keyUuid \in UuidCorpus :
       tenants' = MapSet(tenants, id, NewTenant(id, name, keyUuid))
  /\ UNCHANGED << pureVars, execVars, loaderVars, contextVars >>

OtherIdle == LoaderIdle /\ ContextIdle /\ StoreIdle

InitLoader ==
  /\ PureIdle
  /\ ExecIdle
  /\ OtherIdle
NextLoader == AddFile \/ EditFile \/ RemoveFile \/ ChangeDirectory \/ Load
SpecLoader == InitLoader /\ [][NextLoader]_vars

InitContext ==
  /\ PureIdle
  /\ ExecIdle
  /\ OtherIdle
NextContext ==
  \E t \in ChainIds :
    \/ Begin(t) \/ ReadContext(t) \/ EnterSync(t) \/ ExitSync(t)
    \/ \E u \in ChainIds : SpawnAsync(t, u)
    \/ Suspend(t) \/ Resume(t) \/ EndChain(t)
SpecContext == InitContext /\ [][NextContext]_vars

InitStore ==
  /\ PureIdle
  /\ ExecIdle
  /\ OtherIdle

NextStore == \E name \in NameCorpus : createTenant(name)

SpecStore == InitStore /\ [][NextStore]_vars

(***************************************************************************)
(* Calls of the pure functions                                             *)
(***************************************************************************)
InitInterpolateString ==
  /\ fn = "interpolateString"
  /\ arg \in [segs : TemplateCorpus, ctx : CtxCorpus, strictEnv : BOOLEAN]
  /\ ret = Pending

InitInterpolateDeep ==
  /\ fn = "interpolateDeep"
  /\ arg \in [value : DeepCorpus, ctx : CtxCorpus, strictEnv : BOOLEAN]
  /\ ret = Pending

InitIsAllowedHost ==
  /\ fn = "isAllowedHost"
  /\ arg \in [hostname : HostnameCorpus, allowedHosts : AllowedHostsCorpus]
  /\ ret = Pending

InitBuildParameterSchema ==
  /\ fn = "buildParameterSchema"
  /\ arg \in [parameters : ParametersCorpus]
  /\ ret = Pending

InitLoadToolDefinitions ==
  /\ fn = "loadToolDefinitions"
  /\ \/ arg \in { [dir |-> Directory(FALSE, FALSE, <<>>)],
                   [dir |-> Directory(TRUE, FALSE, <<>>)] }
     \/ \E n \in 0..MaxFiles :
          \E held \in [1..n -> FileChoices] :
            arg = [dir |-> Directory(TRUE, TRUE, [k \in 1..n |-> NamedFile(k, held[k])])]
  /\ ret = Pending

CallInterpolateString ==
  /\ fn = "interpolateString" /\ ~ret.done
  /\ ret' = Done(interpolateString(Flatten(arg.segs), arg.ctx, arg.strictEnv))
  /\ UNCHANGED << fn, arg, execVars, otherVars >>

CallInterpolateDeep ==
  /\ fn = "interpolateDeep" /\ ~ret.done
  /\ ret' = Done(interpolateDeep(arg.value, arg.ctx, arg.strictEnv))
  /\ UNCHANGED << fn, arg, execVars, otherVars >>

CallIsAllowedHost ==
  /\ fn = "isAllowedHost" /\ ~ret.done
  /\ ret' = Done(isAllowedHost(arg.hostname, arg.allowedHosts))
  /\ UNCHANGED << fn, arg, execVars, otherVars >>

CallBuildParameterSchema ==
  /\ fn = "buildParameterSchema" /\ ~ret.done
  /\ ret' = Done(buildParameterSchema(arg.parameters))
  /\ UNCHANGED << fn, arg, execVars, otherVars >>

CallLoadToolDefinitions ==
  /\ fn = "loadToolDefinitions" /\ ~ret.done
  /\ ret' = Done(loadToolDefinitions(arg.dir))
  /\ UNCHANGED << fn, arg, execVars, otherVars >>

InitPure ==
  /\ \/ InitInterpolateString \/ InitInterpolateDeep \/ InitIsAllowedHost
     \/ InitLoadToolDefinitions \/ InitBuildParameterSchema
  /\ ExecIdle
  /\ OtherIdle
NextPure ==
  \/ CallInterpolateString \/ CallInterpolateDeep \/ CallIsAllowedHost
  \/ CallLoadToolDefinitions \/ CallBuildParameterSchema
SpecPure == InitPure /\ [][NextPure]_vars

(***************************************************************************)
(* executeApiTool as a state machine.  The function runs without           *)
(* interruption up to its first await (fetch) and between awaits; the      *)
(* network decides what each await yields.  The catch block turns every    *)
(* throw inside the try into a failed result.                              *)
(***************************************************************************)
\* The async function returned: its promise is fulfilled with the result
Settle(slot, result) ==
  [slot EXCEPT !.pc = "done", !.result = result, !.promise = "fulfilled",
               !.timer = IF slot.timer = "none" THEN "none" ELSE "cleared"]

\* A catch block that rethrows: the promise of the async function is rejected
Caught_Rethrows(slot, message) ==
  [slot EXCEPT !.pc = "done", !.promise = "rejected",
               !.timer = IF slot.timer = "none" THEN "none" ELSE "cleared"]

\* A catch block that issues the request again after a failed fetch
Caught_Reissues(slot, message) ==
  IF slot.pc = "fetching"
  THEN [slot EXCEPT !.sent = slot.sent + 1, !.timer = "armed"]
  ELSE Settle(slot, Failure(message))

\* catch (error) { ... return { success: false, error: errorMessage } }
Caught(slot, message) == Settle(slot, Failure(message))

\* interpolateDeep writing the interpolated values into the value it was given
ContentAfterDeep_InPlace(content, interpolated) == interpolated

\* The body template after interpolateDeep ran on it: strings give a new string, arrays
\* go through value.map, objects are copied entry by entry into "const result = {}";
\* nothing is assigned into the argument
ContentAfterDeep(content, interpolated) == content

\* The header templates after the header loop: "const headers = {}" is a new object,
\* the loop and the Content-Type default assign into it
HeadersAfterLoop(templates, rendered) == templates

\* process.env after "{ ...process.env, ...env }": the spread copies into a new object
EnvAfterMerge(processEnvNow, extraEnv) == processEnvNow

\* The objects handed to executeApiTool as the synchronous part leaves them; p holds
\* the locals of that part.  ctx.params is the args object itself and is only read.
HeldAfter(definition, args, extraEnv, processEnvNow, p) ==
  [definition |->
     [definition EXCEPT
        !.request.headers =
          IF p.headers = None THEN definition.request.headers
          ELSE HeadersAfterLoop(definition.request.headers, p.headers),
        !.request.body =
          IF p.body = None THEN definition.request.body
          ELSE [definition.request.body EXCEPT
                  !.content = ContentAfterDeep(definition.request.body.content,
                                interpolateDeep(definition.request.body.content,
                                                p.ctx, TRUE).v)]],
   args |-> args,
   extraEnv |-> extraEnv,
   processEnv |-> EnvAfterMerge(processEnvNow, extraEnv)]

\* executeApiTool(params) up to "await fetch(...)"
Invoke(i) ==
  /\ i \in active
  /\ ex[i].pc = "idle"
  /\ calls < MaxCalls
  /\ \E definition \in definitions, extraEnv \in ExtraEnvCorpus :
       \E args \in ArgsFor(definition) :
       \E p \in { Prepare(definition, args, extraEnv, processEnv) } :
         \E started \in { [IdleSlot EXCEPT !.definition = definition, !.args = args,
                                            !.extraEnv = extraEnv,
                                            !.processEnvAtCall = processEnv,
                                            !.ctx = p.ctx, !.url = p.url,
                                            !.promise = "pending",
                                            !.held = HeldAfter(definition, args, extraEnv,
                                                               processEnv, p)] } :
           /\ processEnv' = started.held.processEnv
           /\ definitions' = (definitions \ { definition }) \cup { started.held.definition }
           /\ ex' = [ex EXCEPT ![i] =
                    IF p.error # None THEN Caught(started, p.error.s)
                    ELSE [started EXCEPT
                            !.pc = "fetching",
                            !.request = [method |-> definition.request.method,
                                         url |-> p.url.s, headers |-> p.headers,
                                         body |-> p.body],
                            !.timeout = p.timeout,
                            !.timer = "armed",
                            !.sent = 1]]
  /\ calls' = calls + 1
  /\ UNCHANGED << pureVars, otherVars, active >>

\* fetch resolves with the response head; finally { clearTimeout(timeoutId) }
FetchResolves(i) ==
  /\ ex[i].pc = "fetching"
  /\ \E status \in StatusCorpus, kind \in ContentKinds :
       ex' = [ex EXCEPT ![i].pc = "reading",
                        ![i].timer = "cleared",
                        ![i].response = [status |-> status, kind |-> kind]]
  /\ UNCHANGED << pureVars, otherVars, processEnv, definitions, active, calls >>

\* fetch rejects with a transport error
FetchRejects(i) ==
  /\ ex[i].pc = "fetching"
  /\ ex' = [ex EXCEPT ![i] = Caught(ex[i], msg_FetchFailed)]
  /\ UNCHANGED << pureVars, otherVars, processEnv, definitions, active, calls >>

\* the timer runs out while fetch is pending: controller.abort() rejects the fetch
TimeoutFires(i) ==
  /\ ex[i].pc = "fetching"
  /\ ex[i].timer = "armed"
  /\ ex' = [ex EXCEPT ![i] = Caught([ex[i] EXCEPT !.deadlinePassed = TRUE], msg_Aborted)]
  /\ UNCHANGED << pureVars, otherVars, processEnv, definitions, active, calls >>

\* the effective timeout elapses while the body is awaited: clearTimeout has run, no
\* callback is left to call controller.abort(), the await goes on
DeadlinePasses(i) ==
  /\ ex[i].pc = "reading"
  /\ ex[i].timer = "cleared"
  /\ ~ex[i].deadlinePassed
  /\ ex' = [ex EXCEPT ![i].deadlinePassed = TRUE]
  /\ UNCHANGED << pureVars, otherVars, processEnv, definitions, active, calls >>

\* rendering contexts that read process.env again when the response is there
RenderingEnv_Live(ctx, processEnvNow, extraEnv) == MergeEnv(processEnvNow, extraEnv)

\* "env: ctx.env" of both rendering contexts: the environment merged before the request
RenderingEnv(ctx, processEnvNow, extraEnv) == ctx.env

\* response.json() / response.text() resolves; the rest of the function runs
BodyResolves(i) ==
  /\ ex[i].pc = "reading"
  /\ \E data \in PayloadCorpus(ex[i].response.kind) :
       ex' = [ex EXCEPT ![i] =
                Settle([ex[i] EXCEPT !.responseData = data],
                       Catch(Finish(ex[i].definition,
                                    [ex[i].ctx EXCEPT
                                       !.env = RenderingEnv(ex[i].ctx, processEnv,
                                                            ex[i].extraEnv)],
                                    ex[i].response.status, data)))]
  /\ UNCHANGED << pureVars, otherVars, processEnv, definitions, active, calls >>

\* response.json() rejects: the body is not JSON, or the stream broke
BodyRejects(i) ==
  /\ ex[i].pc = "reading"
  /\ ex' = [ex EXCEPT ![i] = Caught(ex[i], msg_JsonSyntax)]
  /\ UNCHANGED << pureVars, otherVars, processEnv, definitions, active, calls >>

\* the caller has taken the result; the slot is free for the next invocation
Release(i) ==
  /\ ex[i].pc = "done"
  /\ ex' = [ex EXCEPT ![i] = IdleSlot]
  /\ UNCHANGED << pureVars, otherVars, processEnv, definitions, active, calls >>

\* the host process changes process.env
EnvChange ==
  /\ \E e \in ProcessEnvCorpus : e # processEnv /\ processEnv' = e
  /\ UNCHANGED << pureVars, otherVars, definitions, active, ex, calls >>

Init ==
  /\ PureIdle
  /\ processEnv \in ProcessEnvCorpus
  /\ definitions = DefinitionCorpus
  /\ active = { 1 }
  /\ ex = [i \in SlotIds |-> IdleSlot]
  /\ calls = 0
  /\ OtherIdle

Next ==
  \/ \E i \in SlotIds :
       \/ Invoke(i)
       \/ FetchResolves(i)
       \/ FetchRejects(i)
       \/ TimeoutFires(i)
       \/ DeadlinePasses(i)
       \/ BodyResolves(i)
       \/ BodyRejects(i)
       \/ Release(i)
  \/ EnvChange

Spec == Init /\ [][Next]_vars

(***************************************************************************)
(* Two invocations in flight at once.  The inputs are narrowed to two      *)
(* definitions, one of them with response templates that name the          *)
(* environment, and to a few arguments, overrides, statuses and payloads.  *)
(***************************************************************************)
ConcurrentDefinitions == { d \in DefinitionCorpus : d.name \in { "get_item", "env_url" } }

ConcurrentInputs ==
  /\ s_KEY \in DOMAIN processEnv
  /\ \A i \in SlotIds :
       ex[i].pc # "idle" =>
         /\ ex[i].extraEnv \in { EmptyRec, (s_KEY :> Str(s_k2)) }
         /\ ex[i].args \in { EmptyRec, (s_id :> Num(7)) }
         /\ ex[i].response # None =>
              ex[i].response.status \in { 200, 404 } /\ ex[i].response.kind = "json"
         /\ ex[i].responseData # None =>
              ex[i].responseData \in { Obj(<< << s_msg, Str(s_ok) >>, << s_id, Num(42) >> >>),
                                       Null }

InitConcurrent ==
  /\ PureIdle
  /\ processEnv \in ProcessEnvCorpus
  /\ definitions = ConcurrentDefinitions
  /\ active = SlotIds
  /\ ex = [i \in SlotIds |-> IdleSlot]
  /\ calls = 0
  /\ OtherIdle
  /\ ConcurrentInputs

NextConcurrent ==
  \/ \E i \in SlotIds :
       \/ Invoke(i) /\ ConcurrentInputs'
       \/ FetchResolves(i) /\ ConcurrentInputs'
       \/ FetchRejects(i)
       \/ TimeoutFires(i)
       \/ BodyResolves(i) /\ ConcurrentInputs'
       \/ BodyRejects(i)
  \/ EnvChange /\ ConcurrentInputs'

SpecConcurrent == InitConcurrent /\ [][NextConcurrent]_vars

(***************************************************************************)
(* Template engine: properties                                             *)
(***************************************************************************)
IsPh(seg, scope) == seg.k = "ph" /\ seg.scope = scope

\* The record a placeholder of a recognised scope is looked up in, as the context
\* gives it: the empty record stands for a response scope that is not attached
ScopeRec(ctx, scope) ==
  IF scope = s_env THEN ctx.env
  ELSE IF scope = s_params THEN ctx.params
  ELSE IF ctx.hasResponse THEN ctx.response ELSE EmptyRec

Recognised(seg) == seg.k = "ph" /\ seg.scope \in Range(Scopes)
AbsentPh(seg, ctx) == Recognised(seg) /\ seg.key \notin DOMAIN ScopeRec(ctx, seg.scope)

\* Indexes of the {{env.KEY}} segments whose KEY the environment snapshot lacks
MissingEnvSegs(segs, ctx) ==
  { i \in DOMAIN segs : IsPh(segs[i], s_env) /\ AbsentPh(segs[i], ctx) }

Least(S) == CHOOSE x \in S : \A y \in S : x <= y

TemplateCallDone == fn = "interpolateString" /\ ret.done

LenientText(seg, ctx) ==
  IF ~Recognised(seg) THEN SegText(seg)
  ELSE IF AbsentPh(seg, ctx) THEN <<>>
  ELSE ToStringJS(ScopeRec(ctx, seg.scope)[seg.key])

RECURSIVE LenientRender(_, _)
LenientRender(segs, ctx) ==
  IF Len(segs) = 0 THEN <<>>
  ELSE LenientText(Head(segs), ctx) \o LenientRender(Tail(segs), ctx)

RECURSIVE ShapePreserved(_, _, _, _)
\* out is input with every string leaf replaced by its interpolation and everything
\* else (keys, key order, array lengths, element order, non-string leaves) the same
ShapePreserved(input, out, ctx, strictEnv) ==
  IF input.t = "string" THEN
    /\ interpolateString(input.s, ctx, strictEnv).ok
    /\ out = Str(interpolateString(input.s, ctx, strictEnv).v)
  ELSE IF input.t = "array" THEN
    /\ out.t = "array"
    /\ Len(out.a) = Len(input.a)
    /\ \A i \in DOMAIN input.a : ShapePreserved(input.a[i], out.a[i], ctx, strictEnv)
  ELSE IF input.t = "object" THEN
    /\ out.t = "object"
    /\ Len(out.o) = Len(input.o)
    /\ \A i \in DOMAIN input.o :
         /\ out.o[i][1] = input.o[i][1]
         /\ ShapePreserved(input.o[i][2], out.o[i][2], ctx, strictEnv)
  ELSE out = input

DeepCallDone == fn = "interpolateDeep" /\ ret.done

\* C10: interpolateDeep preserves structure: whenever it returns, the result has the
\* input's keys, array lengths and element order, equal non-string leaves, and each
\* string leaf equal to interpolateString of the input leaf under the same context and
\* mode; in non-strict mode it always returns.
C10_DeepPreservesStructure ==
  DeepCallDone =>
     /\ ~arg.strictEnv => ret.out.ok
     /\ ret.out.ok => ShapePreserved(arg.value, ret.out.v, arg.ctx, arg.strictEnv)

\* C10 witness: a nested object was interpolated and a string leaf below its top
\* level changed.
C10_Witness ==
  /\ DeepCallDone /\ ret.out.ok
  /\ arg.value.t = "object"
  /\ \E i \in DOMAIN arg.value.o :
       /\ arg.value.o[i][2].t = "object"
       /\ ret.out.v.o[i][2] # arg.value.o[i][2]



(***************************************************************************)
(* executeApiTool: properties                                              *)
(***************************************************************************)
\* The invocation of slot i, as its caller sees it
Called(i) == ex[i].definition # None
Returned(i) == ex[i].pc = "done"
Failed(i) == Returned(i) /\ ex[i].promise = "fulfilled" /\ ~ex[i].result.success
FailedWith(i, prefix) ==
  Failed(i) /\ ex[i].result.error # Undefined /\ startsWith(ex[i].result.error.s, prefix)

\* C1: executeApiTool is total.  Whatever the definition, the arguments, the
\* environment and the outcome of the network call, the promise of an invocation is
\* never rejected; while the call is suspended it is pending, and once the call has
\* returned it is fulfilled with a result whose success field is a boolean.
C1_ExecutorIsTotal ==
  \A i \in SlotIds :
    /\ ex[i].promise # "rejected"
    /\ ex[i].pc \in {"fetching", "reading"} => ex[i].promise = "pending"
    /\ Returned(i) => /\ ex[i].promise = "fulfilled"
                      /\ ex[i].result # None
                      /\ ex[i].result.success \in BOOLEAN

\* an invocation whose body could not be parsed has returned a failed result
C1_Witness ==
  \E i \in SlotIds :
    /\ Returned(i) /\ ex[i].sent = 1 /\ ex[i].response # None
    /\ ex[i].result = Failure(msg_JsonSyntax)

\* The hostname the resolved URL of slot i names
ResolvedUrl(i) == ParseUrl(ex[i].url.s)

\* seq ends with the items of suffix
EndsWithLabels(seq, suffix) ==
  /\ Len(suffix) <= Len(seq)
  /\ SubSeq(seq, Len(seq) - Len(suffix) + 1, Len(seq)) = suffix

\* Allow-list matching by DNS labels: "*.D" admits D and every name whose trailing
\* labels are those of D; any other entry admits itself only
EntryAdmits(entry, hostname) ==
  IF Len(entry) >= 2 /\ entry[1] = "*" /\ entry[2] = "."
  THEN EndsWithLabels(Split(hostname, "."), Split(SubSeq(entry, 3, Len(entry)), "."))
  ELSE hostname = entry

ListAdmits(allowedHosts, hostname) ==
  \E n \in DOMAIN allowedHosts : EntryAdmits(allowedHosts[n], hostname)

\* C4: allow-list matching.  An entry "*.D" matches the hostname D and every hostname
\* that ends in ".D", and no hostname that ends in the characters of D without the
\* dot in front; an entry without the "*." prefix matches the identical hostname only.
\* isAllowedHost is true exactly when some entry matches in this sense.
C4_WildcardMatchesOnLabelBoundary ==
  (fn = "isAllowedHost" /\ ret.done) =>
    ret.out = ListAdmits(arg.allowedHosts, arg.hostname)

\* a hostname that ends in the characters of D, without the dot, was refused by "*.D"
C4_Witness ==
  /\ fn = "isAllowedHost" /\ ret.done
  /\ arg.allowedHosts = << h_wild_a_io >>
  /\ arg.hostname # h_a_io
  /\ endsWith(arg.hostname, h_a_io)
  /\ ~endsWith(arg.hostname, <<".">> \o h_a_io)
  /\ ret.out = FALSE

\* hostname is four decimal numbers separated by dots
IsDottedQuad(hostname) ==
  \E parts \in { Split(hostname, ".") } :
    /\ Len(parts) = 4
    /\ \A k \in 1..4 : parts[k] # <<>> /\ \A j \in DOMAIN parts[k] : IsDigit(parts[k][j])

Octet(hostname, k) == DigitsValue(Split(hostname, ".")[k], 10)

\* The private and internal hosts: localhost, names under .local and .internal, the
\* metadata address, and the IPv4 addresses of 127.0.0.0/8, 10.0.0.0/8, 172.16.0.0/12,
\* 192.168.0.0/16 and 169.254.0.0/16
IsPrivateOrInternal(hostname) ==
  \/ hostname = h_localhost
  \/ endsWith(hostname, <<".", "l", "o", "c", "a", "l">>)
  \/ endsWith(hostname, <<".", "i", "n", "t", "e", "r", "n", "a", "l">>)
  \/ hostname = h_169_254_169_254
  \/ /\ IsDottedQuad(hostname)
     /\ \/ Octet(hostname, 1) \in {127, 10}
        \/ Octet(hostname, 1) = 172 /\ Octet(hostname, 2) \in 16..31
        \/ Octet(hostname, 1) = 192 /\ Octet(hostname, 2) = 168
        \/ Octet(hostname, 1) = 169 /\ Octet(hostname, 2) = 254

OverlayEnv(i) ==
  [k \in DOMAIN ex[i].processEnvAtCall \cup DOMAIN ex[i].extraEnv |->
     IF k \in DOMAIN ex[i].extraEnv THEN ex[i].extraEnv[k] ELSE ex[i].processEnvAtCall[k]]

\* The required names that neither source defines, in declaration order
AbsentNames(i) ==
  SelectSeq(ex[i].definition.requires_env,
            LAMBDA name : name \notin DOMAIN ex[i].processEnvAtCall
                          /\ name \notin DOMAIN ex[i].extraEnv)

\* C5: when names of requires_env are missing from the merged environment, the
\* invocation has failed with one message that names every missing name, and has
\* issued no request.
C5_AllMissingNamesListed ==
  \A i \in SlotIds :
    (Called(i) /\ Len(AbsentNames(i)) > 0) =>
      /\ FailedWith(i, msg_MissingEnvVars)
      /\ \A n \in DOMAIN AbsentNames(i) : Contains(ex[i].result.error.s, AbsentNames(i)[n])
      /\ ex[i].sent = 0
      /\ ex[i].request = None

\* two required names were missing and both are in the message
C5_Witness ==
  \E i \in SlotIds :
    /\ Called(i) /\ Len(AbsentNames(i)) = 2
    /\ ex[i].result.error =
         Str(msg_MissingEnvVars \o join(AbsentNames(i), <<",", " ">>))

\* C6: a required name that exists in the merged environment, with any value, passes
\* the required-environment check: when every required name exists the invocation
\* does not fail for a missing environment variable.
C6_ExistingNamePasses ==
  \A i \in SlotIds :
    (Called(i) /\ \A n \in DOMAIN ex[i].definition.requires_env :
                    ex[i].definition.requires_env[n] \in DOMAIN OverlayEnv(i))
      => ~FailedWith(i, msg_MissingEnvVars)

\* A name the required-environment check accepts: defined by the overlay, not empty
HasValue(env, name) == name \in DOMAIN env /\ env[name] # Str(<<>>)

\* C7: the merged environment is the process environment overlaid with the
\* call-scoped overrides.  The required-environment check decides on the overlay's
\* value of each name, and the URL and every declared header of an issued request
\* are the templates with each {{env.NAME}} replaced by the overlay's value.
C7_OverridesOverlayProcessEnv ==
  \A i \in SlotIds :
    Called(i) =>
      \E env \in { OverlayEnv(i) } :
        /\ FailedWith(i, msg_MissingEnvVars) <=>
             \E n \in DOMAIN ex[i].definition.requires_env :
               ~HasValue(env, ex[i].definition.requires_env[n])
        /\ ex[i].sent > 0 =>
             \E ctx \in { [env |-> env, params |-> ex[i].args, hasResponse |-> FALSE,
                           response |-> EmptyRec] } :
               /\ ex[i].request.url = LenientRender(ex[i].definition.request.url, ctx)
               /\ \A n \in DOMAIN ex[i].definition.request.headers :
                    \E header \in { ex[i].definition.request.headers[n] } :
                      ex[i].request.headers[header[1]] = LenientRender(header[2], ctx)

\* a request went out whose URL and headers read a name both sources define, with
\* different values
C7_Witness ==
  \E i \in SlotIds :
    /\ Called(i) /\ ex[i].sent > 0
    /\ ex[i].definition.name = "env_url"
    /\ s_KEY \in DOMAIN ex[i].processEnvAtCall \cap DOMAIN ex[i].extraEnv
    /\ ex[i].processEnvAtCall[s_KEY] # ex[i].extraEnv[s_KEY]
    /\ ex[i].request.url = s_https \o h_a_io \o <<"/">> \o ex[i].extraEnv[s_KEY].s

\* C11: the effective timeout is min(timeout_ms, 60000) when the definition declares
\* timeout_ms and min(30000, 60000) = 30000 when it does not; it never exceeds 60000.
C11_TimeoutClampedToCeiling ==
  \A i \in SlotIds :
    ex[i].timeout # None =>
      \E declared \in { ex[i].definition.request.timeout_ms } :
        /\ ex[i].timeout.n <= 60000
        /\ declared = Undefined => ex[i].timeout.n = 30000
        /\ declared # Undefined =>
             /\ declared.n <= 60000 => ex[i].timeout.n = declared.n
             /\ declared.n > 60000 => ex[i].timeout.n = 60000

\* a request went out under a definition that declares 90000 ms
C11_Witness ==
  \E i \in SlotIds :
    /\ ex[i].pc = "fetching" /\ ex[i].timer = "armed"
    /\ ex[i].definition.request.timeout_ms = Num(90000)
    /\ ex[i].timeout = Num(60000)

\* C12: the deadline of the effective timeout binds the whole exchange, headers and
\* body: an invocation whose deadline has passed has been aborted and has returned a
\* failed result; none is still suspended.
C12_DeadlineBoundsWholeExchange ==
  \A i \in SlotIds :
    ex[i].deadlinePassed => Failed(i)

\* The invocation failed in a step that precedes the request: the required-environment
\* check, the interpolation of the URL, headers or body, or the URL validation
FailedBeforeRequest(i) ==
  \/ FailedWith(i, <<"M", "i", "s", "s", "i", "n", "g", " ", "r", "e", "q", "u", "i", "r",
                     "e", "d", " ", "e", "n", "v", "i", "r", "o", "n", "m", "e", "n", "t",
                     " ", "v", "a", "r", "i", "a", "b", "l", "e">>)
  \/ FailedWith(i, <<"I", "n", "v", "a", "l", "i", "d", " ", "U", "R", "L">>)
  \/ FailedWith(i, <<"B", "l", "o", "c", "k", "e", "d", ":">>)

\* C13: an invocation issues at most one request, and exactly one unless a step before
\* the request failed; after a transport error, a timeout or a non-2xx response the
\* request count is still one.
C13_ExactlyOneRequest ==
  \A i \in SlotIds :
    /\ ex[i].sent \in {0, 1}
    /\ (Called(i) /\ ex[i].sent = 0) => FailedBeforeRequest(i) /\ ex[i].response = None
    /\ (Called(i) /\ ~FailedBeforeRequest(i)) => ex[i].sent = 1

\* a call whose fetch was rejected has returned, with one request issued
C13_Witness ==
  \E i \in SlotIds :
    /\ Returned(i)
    /\ ex[i].result = Failure(msg_FetchFailed)
    /\ ex[i].sent = 1

\* The exchange of invocation i completed and its body was parsed
BodyParsed(i) == Returned(i) /\ ex[i].response # None /\ ex[i].responseData # None

\* C14: for a completed exchange whose body was parsed, success is true exactly when
\* the status is in 200..299, and the result carries the HTTP status and the parsed
\* payload whether or not the call succeeded.
C14_SuccessIffStatus2xx ==
  \A i \in SlotIds :
    BodyParsed(i) =>
      /\ ex[i].result.success <=> ex[i].response.status \in 200..299
      /\ ex[i].result.status = Num(ex[i].response.status)
      /\ ex[i].result.data = ex[i].responseData

\* a 299 response was reported as a success with its payload
C14_Witness ==
  \E i \in SlotIds :
    /\ BodyParsed(i)
    /\ ex[i].response.status = 299
    /\ ex[i].result.success
    /\ ex[i].result.data = ex[i].responseData

\* The context of invocation i with the overlay environment and a response scope
RenderCtx(i, scope) ==
  [env |-> OverlayEnv(i), params |-> ex[i].args, hasResponse |-> TRUE,
   response |-> scope]

\* The keys of a keyed payload; any other payload under the key "value"
KeyedOrValue(data) ==
  IF data.t = "object" THEN EntriesToRec(data.o) ELSE (s_value :> data)

\* C15: the result carries a summary exactly when the definition declares a summary
\* template and the status is 2xx.  The summary is the template rendered leniently,
\* an absent {{env.KEY}} as empty text, and the call stays a success.  (Which scope an
\* array payload gives is the subject of C17; the text is compared for other payloads.)
C15_SummaryIffDeclaredAnd2xx ==
  \A i \in SlotIds :
    BodyParsed(i) =>
      \E declared \in { ex[i].definition.response.summary # <<>> } :
        /\ ex[i].result.summary # Undefined <=>
             (declared /\ ex[i].response.status \in 200..299)
        /\ (declared /\ ex[i].response.status \in 200..299) => ex[i].result.success
        /\ (ex[i].result.summary # Undefined /\ ex[i].responseData.t # "array") =>
             ex[i].result.summary =
               Str(LenientRender(ex[i].definition.response.summary,
                                 RenderCtx(i, KeyedOrValue(ex[i].responseData))))

\* a summary that reads an env name neither source defines was rendered, on a success
C15_Witness ==
  \E i \in SlotIds :
    /\ BodyParsed(i) /\ ex[i].result.success
    /\ \E n \in DOMAIN ex[i].definition.response.summary :
         /\ IsPh(ex[i].definition.response.summary[n], s_env)
         /\ ex[i].definition.response.summary[n].key \notin DOMAIN OverlayEnv(i)
    /\ ex[i].result.summary # Undefined
    /\ ex[i].result.summary = Str(s_got \o s_ok \o <<" ">>)

\* The invocation got a non-2xx response and its definition declares an error template
ErrorRendered(i) ==
  /\ BodyParsed(i)
  /\ ex[i].definition.response.error_template # <<>>
  /\ ex[i].response.status \notin 200..299

\* C16: when an error template is declared and the status is not 2xx, the template is
\* rendered against a response scope whose "status" is the HTTP status code, for every
\* payload, a payload with a "status" key of its own included.
C16_ErrorScopeCarriesHttpStatus ==
  \A i \in SlotIds :
    ErrorRendered(i) =>
      ex[i].result.error =
        Str(LenientRender(ex[i].definition.response.error_template,
              RenderCtx(i, (s_status :> Num(ex[i].response.status))
                             @@ ErrorScope(ex[i].response.status, ex[i].responseData))))

\* The invocation got a 2xx response and its definition declares a summary template
SummaryRendered(i) ==
  /\ BodyParsed(i)
  /\ ex[i].definition.response.summary # <<>>
  /\ ex[i].response.status \in 200..299

\* C17: a payload that is not a keyed structure (text, number, boolean, null, array)
\* is put in the response scope as {value: payload}, in the summary rendering and in
\* the error rendering alike (there next to the status); the keys of a keyed payload
\* form the scope themselves.
C17_UnkeyedPayloadUnderValue ==
  \A i \in SlotIds :
    /\ SummaryRendered(i) =>
         ex[i].result.summary =
           Str(LenientRender(ex[i].definition.response.summary,
                             RenderCtx(i, KeyedOrValue(ex[i].responseData))))
    /\ ErrorRendered(i) =>
         ex[i].result.error =
           Str(LenientRender(ex[i].definition.response.error_template,
                 RenderCtx(i, KeyedOrValue(ex[i].responseData)
                                @@ (s_status :> Num(ex[i].response.status)))))

\* The names among D that are a content-type header under some capitalisation
ContentTypeNames(D) == { name \in D : ToLower(name) = s_content_type }

\* The invocation reached fetch with a request body
SentWithBody(i) == ex[i].request # None /\ ex[i].definition.request.body.has

\* C18: with a JSON body the request carries the default content type application/json
\* only when no declared header set a content type; a declared content-type header under
\* any capitalisation of its name is the only content type of the request.  A raw text
\* body never gets a default content type.
C18_DefaultContentTypeOnlyWhenUndeclared ==
  \A i \in SlotIds :
    SentWithBody(i) =>
      \E declared \in { ContentTypeNames({ h[1] : h \in Range(ex[i].definition.request.headers) }) },
         carried \in { ContentTypeNames(DOMAIN ex[i].request.headers) } :
        /\ (ex[i].definition.request.body.type = "json" /\ declared # {}) =>
             carried = declared
        /\ (ex[i].definition.request.body.type = "json" /\ declared = {}) =>
             /\ carried = { s_ContentType }
             /\ ex[i].request.headers[s_ContentType] = s_application_json
        /\ ex[i].definition.request.body.type = "text" => carried = declared

LoadDone == fn = "loadToolDefinitions" /\ ret.done

\* The definition a file contributes by itself: its document when it is a definition
\* file that can be read, parses and validates, nothing otherwise
OwnDefinition(file) ==
  IF /\ IsDefinitionFile(file)
     /\ file.read.ok /\ file.parse.ok
     /\ validateDefinition(file.parse.v) # Null
  THEN << file.parse.v >>
  ELSE << >>

RECURSIVE OwnDefinitions(_)
OwnDefinitions(files) ==
  IF Len(files) = 0 THEN << >>
  ELSE OwnDefinition(Head(files)) \o OwnDefinitions(Tail(files))

\* C19: loading is isolated per file.  loadToolDefinitions never raises, and for a
\* directory it can list it returns, in listing order, the definition of every
\* definition file that can be read, parses and validates, whatever the other files
\* hold; an unreadable, unparsable or invalid file removes only its own definition.
C19_LoadIsolatedPerFile ==
  LoadDone =>
    /\ ret.out.ok
    /\ (arg.dir.exists /\ arg.dir.listable) =>
         ret.out.v.definitions = OwnDefinitions(arg.dir.files)

\* an unparsable file listed before a valid one: the valid one alone is returned
C19_Witness ==
  /\ LoadDone /\ ret.out.ok
  /\ Len(arg.dir.files) = 2
  /\ arg.dir.files[1].read.ok /\ ~arg.dir.files[1].parse.ok
  /\ IsDefinitionFile(arg.dir.files[2])
  /\ arg.dir.files[2].parse = Return(PlainDoc)
  /\ ret.out.v.definitions = << PlainDoc >>
  /\ ret.out.v.warned = << arg.dir.files[1].name >>

\* A name of the form ^[a-z][a-z0-9_]*$
IsToolName(name) ==
  /\ name # << >>
  /\ Head(name) \in Range(LowerLetters)
  /\ Range(Tail(name)) \subseteq Range(LowerLetters) \cup Range(DigitChars) \cup {"_"}

\* The Tool Definition invariants on a document d
SatisfiesInvariants(d) ==
  /\ d.t = "object"
  /\ \E fields \in { EntriesToRec(d.o) } :
       /\ s_name \in DOMAIN fields
       /\ fields[s_name].t = "string" /\ IsToolName(fields[s_name].s)
       /\ s_description \in DOMAIN fields /\ fields[s_description].t = "string"
       /\ s_request \in DOMAIN fields /\ fields[s_request].t = "object"
       /\ \E request \in { EntriesToRec(fields[s_request].o) } :
            /\ s_method \in DOMAIN request
            /\ request[s_method] \in { Str(m) : m \in HttpMethods }
            /\ s_url \in DOMAIN request /\ request[s_url].t = "string"
       /\ s_allowed_hosts \in DOMAIN fields
       /\ fields[s_allowed_hosts].t = "array" /\ fields[s_allowed_hosts].a # << >>
       /\ s_parameters \in DOMAIN fields =>
            /\ fields[s_parameters].t \in {"object", "array"}
            /\ \A declared \in Range(EntriesOf(fields[s_parameters])) :
                 /\ declared[2].t = "object"
                 /\ \E type \in Range(declared[2].o) :
                      type[1] = s_type /\ type[2] \in { Str(t) : t \in ParameterTypes }

\* C20: every definition loadToolDefinitions returns satisfies the Tool Definition
\* invariants: a string name of the identifier pattern, a description, a request
\* object with one of the five methods and a string url, a non-empty allowed_hosts
\* list, and every declared parameter an object with one of the four types.
C20_LoadedDefinitionsSatisfyInvariants ==
  (LoadDone /\ ret.out.ok) =>
    \A k \in DOMAIN ret.out.v.definitions : SatisfiesInvariants(ret.out.v.definitions[k])

\* a returned definition that declares parameters
C20_Witness ==
  /\ LoadDone /\ ret.out.ok
  /\ \E k \in DOMAIN ret.out.v.definitions :
       /\ Prop(ret.out.v.definitions[k], s_parameters).t = "object"
       /\ Len(Prop(ret.out.v.definitions[k], s_parameters).o) = 2

\* C21: tool names are unique within a load: no two definitions one call of
\* loadToolDefinitions returns have the same name, whatever files the directory holds.
C21_LoadedNamesUnique ==
  (LoadDone /\ ret.out.ok) =>
    \A j, k \in DOMAIN ret.out.v.definitions :
      j # k => Prop(ret.out.v.definitions[j], s_name) # Prop(ret.out.v.definitions[k], s_name)

\* C22: loadToolDefinitions holds no state across calls.  After any additions, removals
\* and edits between loads, what a load returns is given by the directory as it is at
\* that call: nothing while the directory is missing or cannot be listed, otherwise the
\* definitions its files hold now.
C22_LoadDependsOnlyOnDirectory ==
  phase \in {"loaded", "reloaded"} =>
    /\ lastLoad.done /\ lastLoad.out.ok
    /\ lastLoad.out.v.definitions =
         IF directory.exists /\ directory.listable
         THEN OwnDefinitions(directory.files) ELSE << >>

\* loaded again after a change: a directory that now holds an unparsable file and a
\* valid one, and a result with the valid one alone
C22_Witness ==
  /\ phase = "reloaded"
  /\ Len(directory.files) = 2
  /\ ~directory.files[1].parse.ok
  /\ lastLoad.out.v.definitions = << PlainDoc >>

\* C23: when the base directory has no api-tools subdirectory, or the subdirectory
\* cannot be listed, loadToolDefinitions returns an empty list and does not raise.
C23_MissingDirectoryLoadsNothing ==
  (phase \in {"loaded", "reloaded"} /\ (~directory.exists \/ ~directory.listable)) =>
    /\ lastLoad.done /\ lastLoad.out.ok
    /\ lastLoad.out.v.definitions = << >>

\* a load while the subdirectory is missing returned the empty list
C23_Witness ==
  /\ phase \in {"loaded", "reloaded"}
  /\ ~directory.exists
  /\ lastLoad = Done(Return(Loaded(<< >>, << >>)))

SchemaBuilt == fn = "buildParameterSchema" /\ ret.done /\ ret.out.ok

\* The names of the schema's fields
FieldNames(schema) == { schema.properties[k][1] : k \in DOMAIN schema.properties }

\* C24: in the schema buildParameterSchema builds, every declared parameter is a field,
\* and a parameter is in the required set exactly when its declaration has required
\* set to true; with required false, unspecified or anything else it is optional.
C24_RequiredIffDeclaredTrue ==
  SchemaBuilt =>
    \A declared \in Range(EntriesOf(arg.parameters)) :
      /\ declared[1] \in FieldNames(ret.out.v)
      /\ declared[1] \in Range(ret.out.v.required) <=>
           Prop(declared[2], s_required) = Bool(TRUE)

\* What the getters give inside a run call with the given context, and outside any
ExpectedGetters(within) ==
  IF within = Undefined
  THEN [context |-> Undefined, tenantId |-> Null, stateDir |-> Null]
  ELSE [context |-> within, tenantId |-> within.tenantId, stateDir |-> within.stateDir]

\* C25: wherever a chain reads the tenant getters, synchronously or after awaits, it
\* gets the context of the innermost run call that encloses it, and null/undefined
\* outside any; also when calls nest, when chains with different contexts interleave,
\* and after a callback left by throwing or rejecting.
C25_GettersGiveInnermostContext ==
  seen # None => seen.got = ExpectedGetters(seen.within)

\* a chain resumed after an await reads its own context while a chain with another
\* context is suspended, after a nested callback of it threw
C25_Witness ==
  \E t, u \in ChainIds :
    /\ t # u /\ running = t
    /\ chains[t].base # Undefined /\ chains[u].base # Undefined
    /\ chains[t].base # chains[u].base
    /\ chains[u].pc = "suspended"
    /\ chains[t].frames = <<>>
    /\ lastExit = "throw"
    /\ seen # None /\ seen.by = t
    /\ seen.got.context = chains[t].base

\* C26: after any sequence of createTenant calls, every tenant in the store has an
\* accountId different from the accountId of every other tenant in the store.
C26_AccountIdsDistinct ==
  \A j, k \in DOMAIN listTenants :
    j # k => listTenants[j].accountId # listTenants[k].accountId

\* What each step of the pipeline does on the inputs of an invocation, every step taken
\* by itself: 1 required environment, 2 URL template, 3 URL parses, 4 host not private,
\* 5 host allow-listed, 6 header templates, 7 body.  Steps 3 to 5 need the URL of step
\* 2, steps 4 and 5 the host name of step 3; where that is missing they count as passed.
StepOutcomes(definition, args, extraEnv, processEnvNow) ==
  LET ctx == [env |-> MergeEnv(processEnvNow, extraEnv), params |-> args,
              hasResponse |-> FALSE, response |-> EmptyRec]
      url == interpolateString(Flatten(definition.request.url), ctx, TRUE)
      parsed == IF url.ok THEN ParseUrl(url.v) ELSE [ok |-> FALSE]
      hosts == definition.allowed_hosts
  IN  << checkRequiredEnvVars(definition.requires_env, extraEnv, processEnvNow),
         url,
         IF url.ok /\ ~parsed.ok THEN Throw(msg_InvalidUrl \o url.v) ELSE Return(Undefined),
         IF parsed.ok /\ isPrivateHost(parsed.hostname)
         THEN Throw(msg_BlockedPrivate \o parsed.hostname \o <<")">>)
         ELSE Return(Undefined),
         IF parsed.ok /\ ~isAllowedHost(parsed.hostname, hosts)
         THEN Throw(msg_BlockedHost \o parsed.hostname \o msg_NotInAllowed
                    \o join(hosts, <<",", " ">>) \o <<"]">>)
         ELSE Return(Undefined),
         InterpolateHeaders(
           [i \in DOMAIN definition.request.headers |->
              << definition.request.headers[i][1],
                 Flatten(definition.request.headers[i][2]) >>], ctx),
         BuildBody(definition.request.body, EmptyRec, ctx) >>

\* the steps of a slot's invocation
StepsOf(slot) ==
  StepOutcomes(slot.definition, slot.args, slot.extraEnv, slot.processEnvAtCall)

Failing(steps) == { k \in DOMAIN steps : ~steps[k].ok }

FirstFailing(steps) == CHOOSE k \in Failing(steps) : \A j \in Failing(steps) : k <= j

\* nothing after the failing step k ran: no context before step 2, no URL before step
\* 3, no request, no timer, nothing sent
StoppedAt(slot, k) ==
  /\ slot.pc = "done"
  /\ slot.sent = 0 /\ slot.request = None /\ slot.timeout = None /\ slot.timer = "none"
  /\ slot.response = None
  /\ (k = 1) = (slot.ctx = None)
  /\ (k <= 2) = (slot.url = None)

\* C27: the steps of the executor fail in a fixed order: required environment, URL
\* template, URL validation (unparsable, private host, host not allow-listed), header
\* templates, body.  An invocation that ended before the request reports the error of
\* the first step that fails on its inputs, whatever later steps fail as well, and
\* performed no step after it; an invocation at its request has no failing step.
C27_FirstFailingStepDecides ==
  \A i \in SlotIds :
    /\ ex[i].pc = "fetching" => Failing(StepsOf(ex[i])) = {}
    /\ (ex[i].pc = "done" /\ ex[i].sent = 0) =>
         \E steps \in { StepsOf(ex[i]) } :
           /\ Failing(steps) # {}
           /\ ex[i].result = Failure(steps[FirstFailing(steps)].message)
           /\ StoppedAt(ex[i], FirstFailing(steps))

\* an invocation whose host is private and not allow-listed and whose header and body
\* templates name unset variables: the private-host error is the one reported
C27_Witness ==
  \E i \in SlotIds :
    /\ ex[i].pc = "done"
    /\ \E steps \in { StepsOf(ex[i]) } :
         /\ Failing(steps) = { 4, 5, 6, 7 }
         /\ steps[5].message # steps[4].message
         /\ steps[6].message # steps[4].message
         /\ steps[7].message # steps[6].message
         /\ ex[i].result.error = Str(steps[4].message)

\* C28: executeApiTool leaves its inputs as they were, on every path: the definition
\* with its header and body templates, the call arguments, the call-scoped overrides
\* and process.env are after the call what they were before it.
C28_InputsUnchanged ==
  \A i \in SlotIds :
    ex[i].pc # "idle" =>
      /\ ex[i].held.definition = ex[i].definition
      /\ ex[i].held.args = ex[i].args
      /\ ex[i].held.extraEnv = ex[i].extraEnv
      /\ ex[i].held.processEnv = ex[i].processEnvAtCall
      /\ ex[i].definition \in definitions

\* a finished call whose header and body templates held placeholders that were
\* resolved from the arguments and the environment for the request
C28_Witness ==
  \E i \in SlotIds :
    /\ ex[i].pc = "done"
    /\ ex[i].result.success
    /\ ex[i].definition.request.body.has
    /\ ex[i].request.body.enc = "json"
    /\ ex[i].request.body.value # ex[i].definition.request.body.content
    /\ ex[i].definition.request.headers # << >>
    /\ ex[i].args # EmptyRec
    /\ ex[i].extraEnv # EmptyRec

\* What invocation i, run alone on its definition, arguments, overrides and the
\* process environment of its call, has after the synchronous part
AloneLocals(i) ==
  Prepare(ex[i].definition, ex[i].args, ex[i].extraEnv, ex[i].processEnvAtCall)

\* the request it sends alone; p holds its locals
AloneRequest(i, p) ==
  [method |-> ex[i].definition.request.method, url |-> p.url.s,
   headers |-> p.headers, body |-> p.body]

\* the result it gives alone for the response it received
AloneResult(i, p) ==
  Catch(Finish(ex[i].definition, p.ctx, ex[i].response.status, ex[i].responseData))

\* C29: invocations that overlap do not influence one another: whatever the others
\* do and however process.env changes meanwhile, the request and the result of an
\* invocation are those it gives alone on its definition, arguments, overrides and
\* the process environment of its call; the summary and the error text are rendered
\* with the environment merged before the request.
C29_ConcurrentInvocationsIndependent ==
  \A i \in SlotIds :
    ex[i].pc # "idle" =>
      \E p \in { AloneLocals(i) } :
        /\ ex[i].ctx = p.ctx
        /\ IF p.error # None
           THEN ex[i].sent = 0 /\ ex[i].result = Failure(p.error.s)
           ELSE /\ ex[i].sent = 1
                /\ ex[i].request = AloneRequest(i, p)
                /\ ex[i].timeout = p.timeout
                /\ ex[i].responseData # None => ex[i].result = AloneResult(i, p)

\* two invocations of one definition overlap; process.env lost its TOK after the first
\* was called and before its response came, the second was called after the change;
\* the summary of the first still shows the TOK of its call
C29_Witness ==
  \E i, j \in SlotIds :
    /\ i # j
    /\ ex[i].pc = "done" /\ ex[j].pc \in { "fetching", "reading" }
    /\ ex[i].definition = ex[j].definition
    /\ ex[i].definition.response.summary # << >>
    /\ ex[i].args # ex[j].args
    /\ s_TOK \in DOMAIN ex[i].processEnvAtCall
    /\ s_TOK \notin DOMAIN ex[j].processEnvAtCall
    /\ s_TOK \notin DOMAIN processEnv
    /\ ex[i].result.success
    /\ ex[i].result.summary = Str(s_got \o s_ok \o <<" ">> \o s_t1)

\* the environment variables a template text names: the keys of its {{env.KEY}} matches
EnvNamesIn(text) ==
  { TemplateMatchAt(text, j).key :
      j \in { k \in DOMAIN text : /\ text[k] = "{"
                                  /\ TemplateMatchAt(text, k).ok
                                  /\ TemplateMatchAt(text, k).scope = s_env } }

RECURSIVE StringLeaves(_)
\* the strings interpolateDeep interpolates in a body template
StringLeaves(v) ==
  IF v.t = "string" THEN { v.s }
  ELSE IF v.t = "array" THEN UNION { StringLeaves(v.a[k]) : k \in DOMAIN v.a }
  ELSE IF v.t = "object" THEN UNION { StringLeaves(v.o[k][2]) : k \in DOMAIN v.o }
  ELSE {}

\* every template text of a definition
TemplateTexts(definition) ==
  { Flatten(definition.request.url), Flatten(definition.response.summary),
    Flatten(definition.response.error_template) }
  \cup { Flatten(definition.request.headers[k][2]) : k \in DOMAIN definition.request.headers }
  \cup (IF definition.request.body.has THEN StringLeaves(definition.request.body.content)
        ELSE {})

\* the environment variables the templates of a definition name
TemplateEnvNames(definition) == UNION { EnvNamesIn(text) : text \in TemplateTexts(definition) }

\* The environment with everything hidden that the templates of the definition do not
\* name: such a variable is dropped, or, where requires_env lists it and it is set,
\* replaced by a fixed text
Hidden(env, definition) ==
  Const(TemplateEnvNames(definition), LAMBDA named :
    [k \in { n \in DOMAIN env : n \in named \/ n \in Range(definition.requires_env) } |->
       IF k \in named \/ ~Truthy(env[k]) THEN env[k] ELSE Str(<<"x">>)])

\* the text a template of the definition gives when each segment is resolved on its
\* own and the texts are put side by side
SideBySide(segs, ctx) == Str(LenientRender(segs, ctx))

\* the environment of invocation i with the variables its templates do not name hidden
HiddenEnv(i) ==
  Hidden(MergeEnv(ex[i].processEnvAtCall, ex[i].extraEnv), ex[i].definition)

\* the locals invocation i has before the request when it runs on the hidden environment
HiddenLocals(i) == Prepare(ex[i].definition, ex[i].args, EmptyRec, HiddenEnv(i))

\* the result it gives on the hidden environment for the response it received
HiddenResult(i) ==
  Catch(Finish(ex[i].definition,
               [env |-> HiddenEnv(i), params |-> ex[i].args, hasResponse |-> FALSE,
                response |-> EmptyRec],
               ex[i].response.status, ex[i].responseData))

\* C30: template resolution is one pass.  The text put in for a placeholder is not
\* scanned again, so an argument or a response value that reads {{env.NAME}} comes
\* out as it is; and the request and the result of a call are the same when every
\* environment variable that the definition's templates do not name is hidden.
C30_SinglePassRevealsOnlyNamedEnv ==
  \A i \in SlotIds :
    /\ (ex[i].pc = "done" /\ ex[i].sent = 0) =>
         \E p \in { HiddenLocals(i) } :
           p.error # None /\ ex[i].result = Failure(p.error.s)
    /\ ex[i].pc = "fetching" =>
         \E p \in { HiddenLocals(i) } :
           /\ p.error = None
           /\ ex[i].request =
                [method |-> ex[i].definition.request.method, url |-> p.url.s,
                 headers |-> p.headers, body |-> p.body]
           /\ ex[i].url = SideBySide(ex[i].definition.request.url, ex[i].ctx)
           /\ \A k \in DOMAIN ex[i].definition.request.headers :
                Str(ex[i].request.headers[ex[i].definition.request.headers[k][1]])
                  = SideBySide(ex[i].definition.request.headers[k][2], ex[i].ctx)
    /\ (ex[i].pc = "done" /\ ex[i].responseData # None) =>
         /\ ex[i].result = HiddenResult(i)
         /\ ex[i].result.summary # Undefined =>
              ex[i].result.summary =
                SideBySide(ex[i].definition.response.summary,
                           [ex[i].ctx EXCEPT
                              !.hasResponse = TRUE,
                              !.response = SummaryScope(ex[i].responseData)])

\* the response held the text {{env.TOK}} and TOK is set: the summary, whose template
\* names TOK itself, shows the text as it came and the value of TOK once
C30_Witness ==
  \E i \in SlotIds :
    /\ ex[i].pc = "done"
    /\ ex[i].result.success
    /\ ex[i].responseData = Obj(<< << s_msg, Str(Flatten(<< Ph(s_env, s_TOK) >>)) >> >>)
    /\ Lookup(ex[i].ctx.env, s_TOK) = Str(s_t1)
    /\ ex[i].result.summary
         = Str(s_got \o Flatten(<< Ph(s_env, s_TOK) >>) \o <<" ">> \o s_t1)

=========================================================================
